---- MODULE Spec2Model ----
(***************************************************************************)
(* A model of the raccoon-lang compiler front end: the string interner     *)
(* (compiler/span), the lexer (compiler/lexer) and the recursive-descent   *)
(* parser (compiler/parse).                                                *)
(*                                                                         *)
(* Strings are TLA+ strings; a source text is a sequence of characters,    *)
(* each character a one-character string (a character outside ASCII is a   *)
(* symbolic name with its UTF-8 width given by len_utf8).                  *)
(***************************************************************************)
EXTENDS Integers, Sequences, FiniteSets, TLC

VARIABLES
    inner,      \* InternerInner: [strings, symbols], the data behind the Mutex
    mutex,      \* the thread holding Interner.0, or NoThread
    pc,         \* per thread: the position inside intern / get
    arg,        \* per thread: the argument of the running call
    rets,       \* history: the finished intern calls, [str, sym]
    getlog,     \* history: the finished get calls, [str, sym, out]
    src,        \* the source text handed to Lexer::new / Parser::new
    cursor,     \* Lexer.cursor: [input (the characters left), len]
    toks,       \* history: the tokens the Lexer::advance calls returned
    panic,      \* "" or the reason the process stopped (a panic message)
    token,      \* Parser.token
    prev_token, \* Parser.prev_token
    ppc,        \* the position of the program inside Parser::new / parse_crate
    mod_items,  \* parse_mod's local `items` in the parse_crate call
    mod_start,  \* parse_mod's local `start` in the parse_crate call
    result,     \* what parse_crate returned: [tag, crate]
    ret         \* what one method called on the Parser returned: [of, args, ok, v, at]

internVars == <<mutex, pc, arg, rets, getlog>>
lexVars == <<src, cursor, toks, panic>>
parseVars == <<token, prev_token, ppc, mod_items, mod_start, result, ret>>
vars == <<inner, internVars, lexVars, parseVars>>

(***************************************************************************)
(* Bounds                                                                  *)
(***************************************************************************)
NumThreads == 2
MaxOpsLen == 3
MaxMixLen == 4
MaxEofCalls == 2
MaxWords == 3
MaxPunctFollow == 1
MaxPieces == 2
MaxSteps == 16
MaxOperators == 3
MaxLeading == 1
MaxNumLen == 5

Threads == 1..NumThreads
NoThread == 0

(***************************************************************************)
(* symbols! { ... }: the declared keywords, in declaration order           *)
(***************************************************************************)
SymbolsDecl ==
    << <<"Empty", "">>, <<"Wildcard", "_">>,
       <<"Let", "let">>, <<"Const", "const">>, <<"If", "if">>, <<"Else", "else">>,
       <<"While", "while">>, <<"For", "for">>, <<"In", "in">>, <<"Loop", "loop">>,
       <<"Break", "break">>, <<"Continue", "continue">>, <<"Return", "return">>,
       <<"Mod", "mod">>, <<"Use", "use">>, <<"Fn", "fn">>, <<"Struct", "struct">>,
       <<"Enum", "enum">>, <<"Pub", "pub">>, <<"True", "true">>, <<"False", "false">>,
       <<"As", "as">>, <<"Crate", "crate">>, <<"SelfLower", "self">>,
       <<"SelfUpper", "Self">>, <<"Super", "super">> >>

\* The macro's loop: every keyword appends its value to the prefill list ...
prefill_stream == [i \in 1..Len(SymbolsDecl) |-> SymbolsDecl[i][2]]

\* ... and becomes `pub const #name: Symbol = Symbol(#counter)`, counter from 0.
kw(name) == (CHOOSE i \in 1..Len(SymbolsDecl) : SymbolsDecl[i][1] = name) - 1

Range(s) == {s[i] : i \in 1..Len(s)}

(***************************************************************************)
(* Interner                                                                *)
(***************************************************************************)
\* mutant: the forward map numbers the pre-registered strings from 1
prefill_from_one(strs) ==
    [strings |-> strs,
     symbols |-> [s \in {strs[i] : i \in 1..Len(strs)} |->
                    CHOOSE i \in 1..Len(strs) : strs[i] = s]]

\* strings.iter().copied().zip((0..).map(Symbol)).collect(): a later equal key
\* overwrites an earlier one.
prefill(strs) ==
    [strings |-> strs,
     symbols |-> [s \in Range(strs) |->
                    (CHOOSE i \in 1..Len(strs) :
                        strs[i] = s /\ \A j \in 1..Len(strs) : strs[j] = s => j <= i) - 1]]

fresh == prefill(prefill_stream)

\* mutant: the new Symbol is one past the vector's length
next_symbol_off_by_one(in) == Len(in.strings) + 1

\* let symbol = Symbol(inner.strings.len() as u32)
next_symbol(in) == Len(in.strings)

\* inner.symbols.insert(string, symbol)
symbols_insert(in, s, sym) ==
    [in EXCEPT !.symbols = [x \in DOMAIN in.symbols \cup {s} |->
                              IF x = s THEN sym ELSE in.symbols[x]]]

\* inner.strings.push(string)
strings_push(in, s) == [in EXCEPT !.strings = Append(in.strings, s)]

\* Interner::intern as one uninterrupted call: [sym, inner]
intern(in, s) ==
    IF s \in DOMAIN in.symbols
    THEN [sym |-> in.symbols[s], inner |-> in]
    ELSE LET symbol == next_symbol(in)
         IN  [sym |-> symbol, inner |-> strings_push(symbols_insert(in, s, symbol), s)]

\* Interner::get: inner.strings[symbol.as_usize()]; out of range panics
get(in, sym) == IF sym + 1 \in 1..Len(in.strings) THEN in.strings[sym + 1] ELSE "<panic>"

\* Symbol::is_keyword
is_keyword(sym) == sym <= kw("Pub") /\ sym >= kw("Let")

\* Symbol::is_path_segment_keyword
is_path_segment_keyword(sym) ==
    sym = kw("SelfLower") \/ sym = kw("Super") \/ sym = kw("SelfUpper") \/ sym = kw("Crate")

(***************************************************************************)
(* Characters                                                              *)
(***************************************************************************)
Lower == {"a", "b", "c", "d", "e", "f", "g", "h", "i", "j", "k", "l", "m",
          "n", "o", "p", "q", "r", "s", "t", "u", "v", "w", "x", "y", "z"}
Upper == {"A", "B", "C", "D", "E", "F", "G", "H", "I", "J", "K", "L", "M",
          "N", "O", "P", "Q", "R", "S", "T", "U", "V", "W", "X", "Y", "Z"}
Digit == {"0", "1", "2", "3", "4", "5", "6", "7", "8", "9"}

\* Characters outside ASCII, by name: U+00E9 (e acute) and U+00A0 (no-break
\* space, White_Space) take two bytes each in UTF-8.
TwoByteChars == {"U+00E9", "U+00A0"}

\* char::len_utf8
len_utf8(ch) == IF ch \in TwoByteChars THEN 2 ELSE 1

\* char::is_whitespace
is_whitespace(ch) == ch \in {" ", "\n", "\t", "\r", "U+00A0"}

\* str::len: the bytes of a sequence of characters
RECURSIVE str_len(_)
str_len(s) == IF s = <<>> THEN 0 ELSE len_utf8(Head(s)) + str_len(Tail(s))

(***************************************************************************)
(* Spans and tokens                                                        *)
(***************************************************************************)
\* Span::new
Span(lo, hi) == [lo |-> lo, hi |-> hi]

\* DUMMY_SP
DUMMY_SP == Span(0, 0)

\* A TokenKind without a Symbol carries NoSym in the sym field.
NoSym == -1

\* TokenKind: tag is the variant, sub the operator, delimiter or literal kind,
\* sym the Symbol of a Lit or an Ident.
Kind(tag, sub, sym) == [tag |-> tag, sub |-> sub, sym |-> sym]
CondOp(c) == Kind("CondOp", c, NoSym)
BinOp(b) == Kind("BinOp", b, NoSym)
BinOpEq(b) == Kind("BinOpEq", b, NoSym)
UnOp(u) == Kind("UnOp", u, NoSym)
Eq == Kind("Eq", "", NoSym)
Dot == Kind("Dot", "", NoSym)
Comma == Kind("Comma", "", NoSym)
Semi == Kind("Semi", "", NoSym)
Colon == Kind("Colon", "", NoSym)
DoubleColon == Kind("DoubleColon", "", NoSym)
RArrow == Kind("RArrow", "", NoSym)
Hash == Kind("Hash", "", NoSym)
Lit(k, sym) == Kind("Lit", k, sym)
OpenDelim(d) == Kind("OpenDelim", d, NoSym)
CloseDelim(d) == Kind("CloseDelim", d, NoSym)
Ident(sym) == Kind("Ident", "", sym)
Eof == Kind("Eof", "", NoSym)
Dummy == Kind("Dummy", "", NoSym)

\* Token::new
Token(kind, span) == [kind |-> kind, span |-> span]

\* DUMMY_TOKEN
DUMMY_TOKEN == Token(Dummy, DUMMY_SP)

(***************************************************************************)
(* Cursor                                                                  *)
(***************************************************************************)
\* Cursor::new
Cursor_new(input) == [input |-> input, len |-> str_len(input)]

\* Cursor::peek_char: the next character, or "" for None
peek_char(c) == IF c.input = <<>> THEN "" ELSE Head(c.input)

\* Cursor::peek
peek(c, ch) == c.input # <<>> /\ Head(c.input) = ch

\* Cursor::bump / Iterator::next
bump(c) == IF c.input = <<>> THEN c ELSE [c EXCEPT !.input = Tail(c.input)]

\* Cursor::pos: len - input.as_str().len()
pos(c) == c.len - str_len(c.input)

\* Cursor::is_eof
is_eof(c) == c.input = <<>>

(***************************************************************************)
(* Lexer                                                                   *)
(***************************************************************************)
\* What the match of Lexer::advance yields: a token kind and the cursor after
\* it, or the arm that returns early (sub names the scanner it returns).
Emit(kind, c) == [kind |-> kind, cur |-> c]
Early(what, c) == [kind |-> Kind("Early", what, NoSym), cur |-> c]

\* if_cond!($char, $if, $else): $if is evaluated after self.cursor.bump(), so
\* its cursor is bump(c); $else sees c
if_cond(c, ch, then_, else_) == IF peek(c, ch) THEN then_ ELSE else_

\* $op followed by an optional `=`
op_or_eq(c, b) == if_cond(c, "=", Emit(BinOpEq(b), bump(c)), Emit(BinOp(b), c))

\* '-' => ...
lex_minus(c) ==
    if_cond(c, "=", Emit(BinOpEq("Sub"), bump(c)),
        if_cond(c, ">", Emit(RArrow, bump(c)), Emit(BinOp("Sub"), c)))

\* '/' => ...
lex_slash(c) ==
    if_cond(c, "/", Early("skip_inline_comment", bump(c)),
        if_cond(c, "*", Early("skip_block_comment", bump(c)), op_or_eq(c, "Div")))

\* '&' => ...
lex_amp(c) == if_cond(c, "&", op_or_eq(bump(c), "And"), op_or_eq(c, "BitAnd"))

\* '|' => ...
lex_bar(c) == if_cond(c, "|", op_or_eq(bump(c), "Or"), op_or_eq(c, "BitOr"))

\* '>' => ...
lex_gt(c) ==
    if_cond(c, "=", Emit(CondOp("Ge"), bump(c)),
        if_cond(c, ">", op_or_eq(bump(c), "Shr"), Emit(CondOp("Gt"), c)))

\* mutant: after `<<` the `=` is not looked at
lex_lt_no_shl_eq(c) ==
    if_cond(c, "=", Emit(CondOp("Le"), bump(c)),
        if_cond(c, "<", Emit(BinOp("Shl"), bump(c)), Emit(CondOp("Lt"), c)))

\* '<' => ...
lex_lt(c) ==
    if_cond(c, "=", Emit(CondOp("Le"), bump(c)),
        if_cond(c, "<", op_or_eq(bump(c), "Shl"), Emit(CondOp("Lt"), c)))

\* let kind = match ch { ... }: c is the cursor after ch
match_ch(ch, c) ==
    CASE ch = "=" -> if_cond(c, "=", Emit(CondOp("Eq"), bump(c)), Emit(Eq, c))
      [] ch = "+" -> op_or_eq(c, "Add")
      [] ch = "-" -> lex_minus(c)
      [] ch = "*" -> op_or_eq(c, "Mul")
      [] ch = "^" -> op_or_eq(c, "BitXor")
      [] ch = "%" -> op_or_eq(c, "Rem")
      [] ch = "!" -> if_cond(c, "=", Emit(CondOp("Ne"), bump(c)), Emit(UnOp("Not"), c))
      [] ch = ":" -> if_cond(c, ":", Emit(DoubleColon, bump(c)), Emit(Colon, c))
      [] ch = "." -> Emit(Dot, c)
      [] ch = "," -> Emit(Comma, c)
      [] ch = ";" -> Emit(Semi, c)
      [] ch = "(" -> Emit(OpenDelim("Paren"), c)
      [] ch = ")" -> Emit(CloseDelim("Paren"), c)
      [] ch = "{" -> Emit(OpenDelim("Brace"), c)
      [] ch = "}" -> Emit(CloseDelim("Brace"), c)
      [] ch = "[" -> Emit(OpenDelim("Bracket"), c)
      [] ch = "]" -> Emit(CloseDelim("Bracket"), c)
      [] ch = "/" -> lex_slash(c)
      [] ch = "&" -> lex_amp(c)
      [] ch = "|" -> lex_bar(c)
      [] ch = ">" -> lex_gt(c)
      [] ch = "<" -> lex_lt(c)
      [] ch = "\"" -> Early("scan_string", c)
      [] ch \in Digit -> Early("scan_number", c)
      [] ch \in Lower \cup Upper \cup {"_"} -> Early("scan_ident", c)
      [] is_whitespace(ch) -> Early("skip_whitespace", c)
      [] OTHER -> Early("panic", c)

\* What a lexer call returns: the token, the cursor and the interner after it,
\* and the panic message if the call aborted instead ("" otherwise).
LexRet(tok, c, in) == [tok |-> tok, cur |-> c, inner |-> in, panic |-> ""]
LexPanic(msg, c, in) == [tok |-> DUMMY_TOKEN, cur |-> c, inner |-> in, panic |-> msg]

\* The `while let Some(ch) = self.cursor.peek_char()` loop of scan_ident:
\* [buf, cur] after the maximal run of [A-Za-z0-9_]
RECURSIVE ident_run(_, _)
ident_run(buf, c) ==
    IF c.input # <<>> /\ Head(c.input) \in Lower \cup Upper \cup Digit \cup {"_"}
    THEN ident_run(buf \o Head(c.input), bump(c))
    ELSE [buf |-> buf, cur |-> c]

\* mutant: every reserved word past the keyword range is a Bool literal
scan_ident_bool_range(c, in, first) ==
    LET start == pos(c) - (IF first # "" THEN 1 ELSE 0)
        run == ident_run(first, c)
        i == intern(in, run.buf)
    IN  IF i.sym >= kw("True") /\ i.sym <= kw("Super")
        THEN LexRet(Token(Lit("Bool", i.sym), Span(start, pos(run.cur))), run.cur, i.inner)
        ELSE LexRet(Token(Ident(i.sym), Span(start, pos(run.cur))), run.cur, i.inner)

\* Lexer::scan_ident(first): first is the character already consumed, "" for None
scan_ident(c, in, first) ==
    LET start == pos(c) - (IF first # "" THEN 1 ELSE 0)
        run == ident_run(first, c)
        i == intern(in, run.buf)
    IN  IF i.sym = kw("True") \/ i.sym = kw("False")
        THEN LexRet(Token(Lit("Bool", i.sym), Span(start, pos(run.cur))), run.cur, i.inner)
        ELSE LexRet(Token(Ident(i.sym), Span(start, pos(run.cur))), run.cur, i.inner)

\* The loop of scan_number: [buf, cur, scanned_float]
RECURSIVE number_run(_, _, _, _)
number_run(buf, c, scan_float, scanned_float) ==
    IF c.input # <<>> /\ Head(c.input) \in Digit
    THEN number_run(buf \o Head(c.input), bump(c), scan_float, scanned_float)
    ELSE IF c.input # <<>> /\ Head(c.input) = "." /\ scan_float /\ ~ scanned_float
    THEN number_run(buf \o ".", bump(c), scan_float, TRUE)
    ELSE [buf |-> buf, cur |-> c, scanned_float |-> scanned_float]

\* mutant: a dot is taken into the number whatever scan_float is
scan_number_any_float(c, in, first, scan_float) ==
    LET start == pos(c) - (IF first # "" THEN 1 ELSE 0)
        run == number_run(first, c, TRUE, FALSE)
        i == intern(in, run.buf)
    IN  LexRet(Token(Lit(IF run.scanned_float THEN "Float" ELSE "Int", i.sym),
                     Span(start, pos(run.cur))), run.cur, i.inner)

\* Lexer::scan_number(first, scan_float)
scan_number(c, in, first, scan_float) ==
    LET start == pos(c) - (IF first # "" THEN 1 ELSE 0)
        run == number_run(first, c, scan_float, FALSE)
        i == intern(in, run.buf)
    IN  LexRet(Token(Lit(IF run.scanned_float THEN "Float" ELSE "Int", i.sym),
                     Span(start, pos(run.cur))), run.cur, i.inner)

\* The `for ch in &mut self.cursor` loop of scan_string: [buf, cur, terminated]
RECURSIVE string_run(_, _)
string_run(buf, c) ==
    IF c.input = <<>> THEN [buf |-> buf, cur |-> c, terminated |-> FALSE]
    ELSE IF Head(c.input) = "\"" THEN [buf |-> buf, cur |-> bump(c), terminated |-> TRUE]
    ELSE string_run(buf \o Head(c.input), bump(c))

\* mutant: the span of a string starts after the opening quote
scan_string_late_start(c, in, inside_next) ==
    LET start == pos(c)
        run == string_run("", c)
        i == intern(in, run.buf)
    IN  IF ~ run.terminated
        THEN LexPanic("Unterminated string literal", run.cur, in)
        ELSE LexRet(Token(Lit("Str", i.sym), Span(start, pos(run.cur))), run.cur, i.inner)

\* Lexer::scan_string(inside_next)
scan_string(c, in, inside_next) ==
    LET start == pos(c) - (IF inside_next THEN 1 ELSE 0)
        run == string_run("", c)
        i == intern(in, run.buf)
    IN  IF ~ run.terminated
        THEN LexPanic("Unterminated string literal", run.cur, in)
        ELSE LexRet(Token(Lit("Str", i.sym), Span(start, pos(run.cur))), run.cur, i.inner)

\* The loop of skip_whitespace: the cursor after the run of whitespace
RECURSIVE whitespace_run(_)
whitespace_run(c) ==
    IF c.input # <<>> /\ is_whitespace(Head(c.input)) THEN whitespace_run(bump(c)) ELSE c

\* mutant: the text of an inline comment is not skipped
inline_comment_run_nothing(c) == c

\* The loop of skip_inline_comment: the cursor after the first '\n', or at the end
RECURSIVE inline_comment_run(_)
inline_comment_run(c) ==
    IF c.input = <<>> THEN c
    ELSE IF Head(c.input) = "\n" THEN bump(c)
    ELSE inline_comment_run(bump(c))

\* The loop of skip_block_comment: [cur, terminated]
RECURSIVE block_comment_run(_)
block_comment_run(c) ==
    IF c.input = <<>> THEN [cur |-> c, terminated |-> FALSE]
    ELSE IF Head(c.input) = "*" /\ peek(bump(c), "/")
    THEN [cur |-> bump(bump(c)), terminated |-> TRUE]
    ELSE block_comment_run(bump(c))

\* Lexer::advance, with skip_whitespace, skip_inline_comment and
\* skip_block_comment, which end in a recursive self.advance()
RECURSIVE advance(_, _)
advance(c, in) ==
    LET start == pos(c) IN
    IF c.input = <<>> THEN LexRet(Token(Eof, Span(start, start)), c, in)
    ELSE
    LET ch == Head(c.input)
        m == match_ch(ch, bump(c))
    IN  IF m.kind.tag # "Early"
        THEN LexRet(Token(m.kind, Span(start, pos(m.cur))), m.cur, in)
        ELSE CASE m.kind.sub = "skip_inline_comment" -> advance(inline_comment_run(m.cur), in)
               [] m.kind.sub = "skip_block_comment" ->
                    LET run == block_comment_run(m.cur)
                    IN  IF ~ run.terminated
                        THEN LexPanic("Unterminated block comment", run.cur, in)
                        ELSE advance(run.cur, in)
               [] m.kind.sub = "scan_string" -> scan_string(m.cur, in, TRUE)
               [] m.kind.sub = "scan_number" -> scan_number(m.cur, in, ch, TRUE)
               [] m.kind.sub = "scan_ident" -> scan_ident(m.cur, in, ch)
               [] m.kind.sub = "skip_whitespace" -> advance(whitespace_run(m.cur), in)
               [] OTHER -> LexPanic("unexpected character", m.cur, in)

(***************************************************************************)
(* Parser: the state and the token window                                  *)
(***************************************************************************)
\* struct Parser { lexer, token, prev_token }, with the interner the lexer
\* writes to.  halt is "" or the reason the process stopped inside the call;
\* steps is the number of nested calls and loop rounds the call may still take;
\* frames are the calls that have not returned yet, each with the lexer
\* position and the tokens it was entered with.
Parser(c, in, tok, prev, steps) ==
    [cursor |-> c, inner |-> in, token |-> tok, prev_token |-> prev,
     halt |-> "", steps |-> steps, frames |-> {}]

\* Result<T, ParseError>
Ok(p, v) == [ok |-> TRUE, p |-> p, v |-> v]
Err(p) == [ok |-> FALSE, p |-> p, v |-> "ParseError"]

\* Option<T>
None == <<>>
Some(v) == <<v>>

\* Some(x?) of a Result x
OkSome(r) == IF r.ok THEN Ok(r.p, Some(r.v)) ELSE r

\* The element of a one-element set
Only(S) == CHOOSE e \in S : TRUE

\* let x = e; rest, written Bind([x \in {e} |-> rest]); let x = e?; rest has
\* rest behind IF ~ x.ok THEN Err(x.p) ELSE
Bind(F) == Only({F[x] : x \in DOMAIN F})

\* The process stops (a panic, or a call that does not return): no later
\* step of the call sees a token.
Halt(p, msg) ==
    IF p.halt # "" THEN p
    ELSE [p EXCEPT !.halt = msg, !.token = Token(Kind("Halted", "", NoSym), DUMMY_SP)]

\* One more nested call or loop round
Tick(p) ==
    IF p.halt # "" THEN p
    ELSE IF p.steps = 0 THEN Halt(p, "does not terminate")
    ELSE [p EXCEPT !.steps = @ - 1]

\* The frame of a call of f(a...) entered with the fields of p
Frame(p, f, a) ==
    [f |-> f, a |-> a, cursor |-> p.cursor, token |-> p.token, prev_token |-> p.prev_token]

\* f(a...) is entered: a method entered again inside itself with the same
\* arguments and the same Parser fields recurses without end
Enter(p, f, a) ==
    IF p.halt # "" THEN p
    ELSE IF Frame(p, f, a) \in p.frames THEN Halt(p, "does not terminate")
    ELSE [p EXCEPT !.frames = @ \cup {Frame(p, f, a)}]

\* Span::to
to(a, b) == Span(a.lo, b.hi)

\* Ident::new, Ident::empty
Ident_new(name, span) == [name |-> name, span |-> span]
Ident_empty == Ident_new(kw("Empty"), DUMMY_SP)

\* self.f(a...): a method of the Parser calling another one.  A call of a
\* parsing method counts as a step of the running call; a call of the lexer
\* (advance, advance_int) always returns and is not counted.
RECURSIVE call(_, _, _)

\* Parser::advance
Parser_advance(p) ==
    IF p.halt # "" THEN p ELSE
    Bind([r \in {advance(p.cursor, p.inner)} |->
    IF r.panic # ""
    THEN Halt([p EXCEPT !.cursor = r.cur, !.inner = r.inner], r.panic)
    ELSE [p EXCEPT !.cursor = r.cur, !.inner = r.inner,
                   !.token = r.tok, !.prev_token = p.token]])

\* Parser::advance_int: [p, v], v the Symbol of the digits or None
advance_int(p) ==
    IF p.halt # "" THEN [p |-> p, v |-> None] ELSE
    Bind([r \in {scan_number(p.cursor, p.inner, "", FALSE)} |->
    IF get(r.inner, r.tok.kind.sym) = ""
    THEN [p |-> [p EXCEPT !.cursor = r.cur, !.inner = r.inner], v |-> None]
    ELSE [p |-> [p EXCEPT !.cursor = r.cur, !.inner = r.inner,
                          !.token = r.tok, !.prev_token = p.token],
          v |-> Some(r.tok.kind.sym)]])

\* Parser::eat: [p, v], v the returned bool
eat(p, kind) ==
    IF p.token.kind = kind
    THEN [p |-> call("advance", p, <<>>), v |-> TRUE]
    ELSE [p |-> p, v |-> FALSE]

eat_keyword(p, keyword) == eat(p, Ident(keyword))

eat_delim(p, delim) == eat(p, OpenDelim(delim))

\* Parser::check
check(p, kind) == p.token.kind = kind

check_keyword(p, keyword) == check(p, Ident(keyword))

check_delim(p, delim) == check(p, OpenDelim(delim))

\* Parser::expect
expect(p, kind) ==
    IF p.token.kind = kind THEN Ok(call("advance", p, <<>>), "()") ELSE Err(p)

expect_keyword(p, keyword) == expect(p, Ident(keyword))

expect_semi(p) == expect(p, Semi)

\* Parser::parse_ident
parse_ident(p, eat_) ==
    IF p.token.kind.tag = "Ident" /\ ~ is_keyword(p.token.kind.sym)
    THEN Ok(IF eat_ THEN call("advance", p, <<>>) ELSE p,
            Ident_new(p.token.kind.sym, p.token.span))
    ELSE Err(p)

(***************************************************************************)
(* Parser: the syntax tree                                                 *)
(***************************************************************************)
\* A value of an enum of the syntax tree: the variant and its payload
Variant(tag, v) == [tag |-> tag, v |-> v]
Unit(tag) == Variant(tag, <<>>)

PathSegment(ident, span) == [ident |-> ident, span |-> span]
Path(segments) == [segments |-> segments]
Ty(kind, span) == [kind |-> kind, span |-> span]
Pat(kind, span) == [kind |-> kind, span |-> span]
Expr(kind, span) == [kind |-> kind, span |-> span]
Stmt(kind, span) == [kind |-> kind, span |-> span]
Block(stmts, span) == [stmts |-> stmts, span |-> span]
Item(vis, kind, ident, span) == [vis |-> vis, kind |-> kind, ident |-> ident, span |-> span]
Crate(items, span) == [items |-> items, span |-> span]

\* Parser::mk_expr
mk_expr(kind, span) == Expr(kind, span)

\* impl From<Ident> for Path
Path_from(ident) == Path(<<PathSegment(ident, ident.span)>>)

(***************************************************************************)
(* Parser: delimited lists                                                 *)
(***************************************************************************)
\* The loop of parse_terminals, f the name of the method the closure calls
RECURSIVE terminals_loop(_, _, _, _, _)
terminals_loop(p, items, sep, end, f) ==
    Bind([e1 \in {eat(p, end)} |->
    IF e1.v THEN Ok(e1.p, items) ELSE
    Bind([item \in {call(f, e1.p, <<>>)} |-> IF ~ item.ok THEN Err(item.p) ELSE
    Bind([e2 \in {eat(item.p, end)} |->
    IF e2.v THEN Ok(e2.p, Append(items, item.v)) ELSE
    Bind([x \in {expect(e2.p, sep)} |-> IF ~ x.ok THEN Err(x.p) ELSE
    terminals_loop(x.p, Append(items, item.v), sep, end, f)])])])])

\* mutant: a separator is eaten before the first item
parse_terminals_leading_sep(p, start, sep, end, f) ==
    Bind([x \in {expect(p, start)} |->
    IF ~ x.ok THEN Err(x.p) ELSE terminals_loop(eat(x.p, sep).p, <<>>, sep, end, f)])

\* Parser::parse_terminals
parse_terminals(p, start, sep, end, f) ==
    Bind([x \in {expect(p, start)} |->
    IF ~ x.ok THEN Err(x.p) ELSE terminals_loop(x.p, <<>>, sep, end, f)])

parse_comma_separated(p, start, end, f) == parse_terminals(p, start, Comma, end, f)

parse_parenthesized(p, f) ==
    parse_comma_separated(p, OpenDelim("Paren"), CloseDelim("Paren"), f)

parse_braced(p, f) ==
    parse_comma_separated(p, OpenDelim("Brace"), CloseDelim("Brace"), f)

parse_bracketed(p, f) ==
    parse_comma_separated(p, OpenDelim("Bracket"), CloseDelim("Bracket"), f)

(***************************************************************************)
(* Parser: paths, types and patterns                                       *)
(***************************************************************************)
\* The while loop of parse_path
RECURSIVE path_loop(_, _, _)
path_loop(p, segments, style) ==
    IF ~ check(p, DoubleColon) THEN Ok(p, Path(segments)) ELSE
    IF style = "Mod" /\ (p.token.kind = OpenDelim("Brace") \/ p.token.kind = BinOp("Mul"))
    THEN Ok(p, Path(segments)) ELSE
    Bind([p1 \in {call("advance", p, <<>>)} |->
    Bind([ident \in {IF p1.token.kind.tag = "Ident"
                       /\ is_path_segment_keyword(p1.token.kind.sym)
                    THEN Ok(p1, Ident_new(p1.token.kind.sym, p1.token.span))
                    ELSE parse_ident(p1, TRUE)} |-> IF ~ ident.ok THEN Err(ident.p) ELSE
    path_loop(ident.p, Append(segments, PathSegment(ident.v, ident.p.prev_token.span)),
              style)])])

\* Parser::parse_path
parse_path(p, style) ==
    Bind([ident \in {parse_ident(p, TRUE)} |-> IF ~ ident.ok THEN Err(ident.p) ELSE
    path_loop(ident.p, <<PathSegment(ident.v, ident.p.prev_token.span)>>, style)])

\* Parser::parse_ty
parse_ty(p) ==
    LET start == p.token.span IN
    Bind([kind \in {call("parse_ty_kind", p, <<>>)} |-> IF ~ kind.ok THEN Err(kind.p) ELSE
    Bind([e \in {eat_delim(kind.p, "Bracket")} |->
    IF e.v
    THEN Bind([x \in {expect(e.p, CloseDelim("Bracket"))} |-> IF ~ x.ok THEN Err(x.p) ELSE
         Ok(x.p, Ty(Variant("Array", Ty(kind.v, to(start, kind.p.prev_token.span))),
                    to(start, x.p.prev_token.span)))])
    ELSE Ok(e.p, Ty(kind.v, to(start, kind.p.prev_token.span)))])])

\* Parser::parse_ty_kind
parse_ty_kind(p) ==
    IF check_delim(p, "Paren")
    THEN Bind([types \in {parse_parenthesized(p, "parse_ty")} |->
         IF ~ types.ok THEN Err(types.p) ELSE
         Ok(types.p, IF Len(types.v) = 1 THEN Variant("Paren", types.v[1])
                     ELSE IF types.v = <<>> THEN Unit("Unit")
                     ELSE Variant("Tuple", types.v))])
    ELSE IF check_keyword(p, kw("Wildcard")) THEN Ok(p, Unit("Infer"))
    ELSE Bind([path \in {call("parse_path", p, <<"Type">>)} |->
         IF ~ path.ok THEN Err(path.p) ELSE
         Ok(path.p, Variant("Path", path.v))])

\* Parser::parse_pat
parse_pat(p) ==
    LET start == p.token.span IN
    Bind([pat \in {call("parse_pat_kind", p, <<>>)} |-> IF ~ pat.ok THEN Err(pat.p) ELSE
    Ok(pat.p, Pat(pat.v, to(start, pat.p.prev_token.span)))])

\* Parser::parse_pat_kind
parse_pat_kind(p) ==
    CASE p.token.kind.tag = "Ident" ->
           Bind([path \in {call("parse_path", p, <<"Expr">>)} |->
           IF ~ path.ok THEN Err(path.p) ELSE
           CASE path.p.token.kind = OpenDelim("Brace") ->
                  Bind([fields \in {parse_braced(path.p, "parse_pat_field")} |->
                  IF ~ fields.ok THEN Err(fields.p) ELSE
                  Ok(fields.p, Variant("Struct", [path |-> path.v, fields |-> fields.v]))])
             [] path.p.token.kind = OpenDelim("Paren") ->
                  Bind([fields \in {parse_parenthesized(path.p, "parse_pat")} |->
                  IF ~ fields.ok THEN Err(fields.p) ELSE
                  Ok(fields.p, Variant("Enum", [path |-> path.v, fields |-> fields.v]))])
             [] OTHER -> Ok(path.p, Variant("Path", path.v))])
      [] p.token.kind = OpenDelim("Paren") ->
           Bind([pats \in {parse_parenthesized(p, "parse_pat")} |->
           IF ~ pats.ok THEN Err(pats.p) ELSE
           Ok(pats.p, Variant("Tuple", pats.v))])
      [] p.token.kind = OpenDelim("Bracket") ->
           Bind([pats \in {parse_bracketed(p, "parse_pat")} |->
           IF ~ pats.ok THEN Err(pats.p) ELSE
           Ok(pats.p, Variant("Slice", pats.v))])
      [] OTHER -> Err(p)

\* Parser::parse_pat_field
parse_pat_field(p) ==
    LET start == p.token.span IN
    Bind([ident \in {parse_ident(p, TRUE)} |-> IF ~ ident.ok THEN Err(ident.p) ELSE
    Bind([e \in {eat(ident.p, Colon)} |->
    Bind([pat \in {IF e.v THEN OkSome(call("parse_pat", e.p, <<>>)) ELSE Ok(e.p, None)} |->
    IF ~ pat.ok THEN Err(pat.p) ELSE
    Ok(pat.p, [ident |-> ident.v, pat |-> pat.v,
               span |-> to(start, pat.p.prev_token.span)])])])])

(***************************************************************************)
(* Parser: expressions                                                     *)
(***************************************************************************)
\* enum Precedence, in declaration order (the derived Ord)
PrecedenceDecl ==
    <<"Any", "Assign", "Or", "And", "BitOr", "BitXor", "BitAnd", "Compare", "Shift",
      "Arithmetic", "Term">>

Precedence(name) == CHOOSE i \in 1..Len(PrecedenceDecl) : PrecedenceDecl[i] = name

\* Precedence::from_token
from_token(tok) ==
    LET k == tok.kind IN
    CASE k.tag = "BinOpEq" \/ k = Eq -> Some(Precedence("Assign"))
      [] k = BinOp("Or") -> Some(Precedence("Or"))
      [] k = BinOp("And") -> Some(Precedence("And"))
      [] k = BinOp("BitOr") -> Some(Precedence("BitOr"))
      [] k = BinOp("BitAnd") -> Some(Precedence("BitAnd"))
      [] k = BinOp("BitXor") -> Some(Precedence("BitXor"))
      [] k.tag = "CondOp" /\ k.sub \in {"Eq", "Ne", "Lt", "Le", "Gt", "Ge"} ->
           Some(Precedence("Compare"))
      [] k = BinOp("Shl") \/ k = BinOp("Shr") -> Some(Precedence("Shift"))
      [] k = BinOp("Add") \/ k = BinOp("Sub") -> Some(Precedence("Arithmetic"))
      [] k = BinOp("Mul") \/ k = BinOp("Div") \/ k = BinOp("Rem") -> Some(Precedence("Term"))
      [] OTHER -> None

\* Parser::parse_unary_op
parse_unary_op(p) ==
    LET start == p.token.span
        k == p.token.kind
    IN  IF k \in {UnOp("Not"), UnOp("Neg"), UnOp("BitNot")}
        THEN LET q == call("advance", p, <<>>)
             IN  Ok(q, [kind |-> k.sub, span |-> to(start, q.prev_token.span)])
        ELSE Err(p)

\* The operators parse_bin_op knows as BinOp(b) | BinOpEq(b)
BinOpArms == {"BitOr", "Shl", "Shr", "Add", "Sub", "Mul", "Div", "Rem", "BitAnd", "BitXor"}

\* Parser::parse_bin_op: Option<BinOp>
parse_bin_op(p) ==
    LET k == p.token.kind IN
    CASE k.tag \in {"BinOp", "BinOpEq"} /\ k.sub \in BinOpArms ->
           Some([kind |-> k.sub, span |-> p.token.span])
      [] k = CondOp("Eq") \/ k = Eq -> Some([kind |-> "Eq", span |-> p.token.span])
      [] k.tag = "CondOp" /\ k.sub \in {"Ne", "Lt", "Le", "Gt", "Ge"} ->
           Some([kind |-> k.sub, span |-> p.token.span])
      [] OTHER -> None

\* Parser::parse_expr
parse_expr(p) ==
    Bind([lhs \in {call("parse_unary_expr", p, <<>>)} |-> IF ~ lhs.ok THEN Err(lhs.p) ELSE
    call("parse_bin_rhs", lhs.p, <<Precedence("Any"), lhs.v>>)])

\* The loop of parse_unary_expr: calls, indexing and field accesses
RECURSIVE postfix_loop(_, _, _)
postfix_loop(p, expr, start) ==
    IF check_delim(p, "Paren")
    THEN Bind([args \in {parse_parenthesized(p, "parse_expr")} |->
         IF ~ args.ok THEN Err(args.p) ELSE
         postfix_loop(args.p,
                      mk_expr(Variant("Call", [callee |-> expr, args |-> args.v]),
                              to(start, args.p.prev_token.span)),
                      start)])
    ELSE Bind([brace \in {eat_delim(p, "Brace")} |->
    IF brace.v
    THEN Bind([index \in {call("parse_expr", brace.p, <<>>)} |->
         IF ~ index.ok THEN Err(index.p) ELSE
         Bind([close \in {eat(index.p, CloseDelim("Brace"))} |->
         postfix_loop(close.p,
                      mk_expr(Variant("Index", [base |-> expr, index |-> index.v]),
                              to(start, index.p.prev_token.span)),
                      start)])])
    ELSE Bind([dot \in {eat(brace.p, Dot)} |->
    IF dot.v
    THEN Bind([number \in {call("advance_int", dot.p, <<>>)} |->
         Bind([kind \in {IF number.v # None
                        THEN Ok(number.p, Variant("Unnamed", number.v[1]))
                        ELSE Bind([ident \in {parse_ident(number.p, TRUE)} |->
                             IF ~ ident.ok THEN Err(ident.p) ELSE
                             Ok(ident.p, Variant("Named", ident.v))])} |->
                             IF ~ kind.ok THEN Err(kind.p) ELSE
         postfix_loop(kind.p,
                      mk_expr(Variant("Field", [base |-> expr, kind |-> kind.v]),
                              to(start, kind.p.prev_token.span)),
                      start)])])
    ELSE Ok(dot.p, expr)])])

\* Parser::parse_unary_expr
parse_unary_expr(p) ==
    LET start == p.token.span IN
    IF p.token.kind.tag = "UnOp"
    THEN Bind([op \in {parse_unary_op(p)} |-> IF ~ op.ok THEN Err(op.p) ELSE
         Bind([expr \in {call("parse_unary_expr", op.p, <<>>)} |->
         IF ~ expr.ok THEN Err(expr.p) ELSE
         Ok(expr.p, Expr(Variant("Unary", [op |-> op.v, expr |-> expr.v]),
                         to(start, expr.p.prev_token.span)))])])
    ELSE Bind([expr \in {call("parse_primary_expr", p, <<>>)} |->
         IF ~ expr.ok THEN Err(expr.p) ELSE
         postfix_loop(expr.p, expr.v, start)])

\* The inner while loop of parse_bin_rhs
RECURSIVE bin_rhs_climb(_, _, _)
bin_rhs_climb(p, prec, rhs) ==
    Bind([next_prec \in {from_token(p.token)} |->
    IF next_prec = None THEN Ok(p, rhs) ELSE
    IF next_prec[1] <= prec /\ prec # Precedence("Assign") THEN Ok(p, rhs) ELSE
    Bind([r \in {call("parse_bin_rhs", p, <<next_prec[1], rhs>>)} |->
    IF ~ r.ok THEN Err(r.p) ELSE
    bin_rhs_climb(r.p, prec, r.v)])])

\* The outer while loop of parse_bin_rhs
RECURSIVE bin_rhs_loop(_, _, _, _)
bin_rhs_loop(p, min_prec, lhs, start) ==
    Bind([prec \in {from_token(p.token)} |->
    IF prec = None THEN Ok(p, lhs) ELSE
    IF prec[1] < min_prec THEN Ok(p, lhs) ELSE
    Bind([op \in {parse_bin_op(p)} |->
    IF op = None THEN Err(Halt(p, "called Option::unwrap() on a None value")) ELSE
    Bind([rhs0 \in {call("parse_unary_expr", p, <<>>)} |-> IF ~ rhs0.ok THEN Err(rhs0.p) ELSE
    Bind([rhs \in {bin_rhs_climb(rhs0.p, prec[1], rhs0.v)} |-> IF ~ rhs.ok THEN Err(rhs.p) ELSE
    bin_rhs_loop(rhs.p, min_prec,
                 mk_expr(CASE p.token.kind = Eq ->
                              Variant("Assign", [lhs |-> lhs, rhs |-> rhs.v])
                           [] p.token.kind.tag = "BinOpEq" ->
                              Variant("AssignOp", [lhs |-> lhs, op |-> op[1], rhs |-> rhs.v])
                           [] OTHER ->
                              Variant("Binary", [lhs |-> lhs, op |-> op[1], rhs |-> rhs.v]),
                         to(start, rhs.p.prev_token.span)),
                 start)])])])])

\* Parser::parse_bin_rhs
parse_bin_rhs(p, min_prec, lhs) == bin_rhs_loop(p, min_prec, lhs, p.token.span)

\* Parser::parse_primary_expr
parse_primary_expr(p) ==
    LET start == p.token.span
        k == p.token.kind
    IN
    Bind([expr \in {
          CASE k.tag = "Lit" ->
                 Ok(call("advance", p, <<>>), Variant("Lit", [kind |-> k.sub, symbol |-> k.sym]))
            [] k.tag = "Ident" ->
                 CASE k.sym = kw("If") -> call("parse_if_expr", p, <<>>)
                   [] k.sym = kw("While") -> call("parse_while_expr", p, <<>>)
                   [] k.sym = kw("For") -> call("parse_for_expr", p, <<>>)
                   [] k.sym = kw("Loop") -> call("parse_loop_expr", p, <<>>)
                   [] k.sym = kw("Return") -> call("parse_return_expr", p, <<>>)
                   [] k.sym = kw("Break") -> call("parse_break_expr", p, <<>>)
                   [] k.sym = kw("Continue") -> Ok(call("advance", p, <<>>), Unit("Continue"))
                   [] OTHER ->
                        Bind([path \in {call("parse_path", p, <<"Expr">>)} |->
                        IF ~ path.ok THEN Err(path.p) ELSE
                        Ok(path.p, Variant("Path", path.v))])
            [] k = OpenDelim("Paren") ->
                 Bind([exprs \in {parse_parenthesized(p, "parse_expr")} |->
                 IF ~ exprs.ok THEN Err(exprs.p) ELSE
                 Ok(exprs.p, IF Len(exprs.v) = 1 THEN Variant("Paren", exprs.v[1])
                             ELSE Variant("Tuple", exprs.v))])
            [] k = OpenDelim("Brace") ->
                 Bind([stmts \in {parse_braced(p, "parse_stmt")} |->
                 IF ~ stmts.ok THEN Err(stmts.p) ELSE
                 Ok(stmts.p, Variant("Block",
                                     Block(stmts.v, to(start, stmts.p.prev_token.span))))])
            [] k = OpenDelim("Bracket") ->
                 Bind([exprs \in {parse_bracketed(p, "parse_expr")} |->
                 IF ~ exprs.ok THEN Err(exprs.p) ELSE
                 Ok(exprs.p, Variant("Array", exprs.v))])
            [] k = Hash ->
                 Bind([fields \in {parse_braced(p, "parse_struct_expr_field")} |->
                 IF ~ fields.ok THEN Err(fields.p) ELSE
                 Ok(fields.p, Variant("Struct", fields.v))])
            [] OTHER -> Err(p)} |-> IF ~ expr.ok THEN Err(expr.p) ELSE
    Ok(expr.p, mk_expr(expr.v, start))])

\* Parser::parse_struct_expr_field
parse_struct_expr_field(p) ==
    LET start == p.token.span IN
    Bind([name \in {parse_ident(p, TRUE)} |-> IF ~ name.ok THEN Err(name.p) ELSE
    Bind([e \in {eat(name.p, Colon)} |->
    Bind([value \in {IF e.v THEN call("parse_expr", e.p, <<>>)
                    ELSE Ok(e.p, mk_expr(Variant("Path", Path_from(name.v)), start))} |->
                    IF ~ value.ok THEN Err(value.p) ELSE
    Ok(value.p, [name |-> name.v, value |-> value.v,
                 span |-> to(start, value.p.prev_token.span)])])])])

\* The else branch of parse_if_expr, after `else` was eaten
else_branch(p) ==
    Bind([e \in {eat_keyword(p, kw("If"))} |->
    IF e.v
    THEN Bind([expr \in {call("parse_if_expr", e.p, <<>>)} |->
         IF ~ expr.ok THEN Err(expr.p) ELSE
         Ok(expr.p, Some(mk_expr(expr.v, to(e.p.token.span, expr.p.prev_token.span))))])
    ELSE Bind([block \in {call("parse_block", e.p, <<>>)} |->
         IF ~ block.ok THEN Err(block.p) ELSE
         Ok(block.p, Some(mk_expr(Variant("Block", block.v),
                                  to(e.p.token.span, block.p.prev_token.span))))])])

\* Parser::parse_if_expr
parse_if_expr(p) ==
    Bind([x \in {expect_keyword(p, kw("If"))} |-> IF ~ x.ok THEN Err(x.p) ELSE
    Bind([cond \in {call("parse_expr", x.p, <<>>)} |-> IF ~ cond.ok THEN Err(cond.p) ELSE
    Bind([then_branch \in {call("parse_block", cond.p, <<>>)} |->
    IF ~ then_branch.ok THEN Err(then_branch.p) ELSE
    Bind([e \in {eat_keyword(then_branch.p, kw("Else"))} |->
    Bind([els \in {IF e.v THEN else_branch(e.p) ELSE Ok(e.p, None)} |->
    IF ~ els.ok THEN Err(els.p) ELSE
    Ok(els.p, Variant("If", [cond |-> cond.v, then_branch |-> then_branch.v,
                             else_branch |-> els.v]))])])])])])

\* Parser::parse_while_expr
parse_while_expr(p) ==
    Bind([cond \in {call("parse_expr", p, <<>>)} |-> IF ~ cond.ok THEN Err(cond.p) ELSE
    Bind([body \in {call("parse_block", cond.p, <<>>)} |-> IF ~ body.ok THEN Err(body.p) ELSE
    Ok(body.p, Variant("While", [cond |-> cond.v, body |-> body.v]))])])

\* Parser::parse_for_expr
parse_for_expr(p) ==
    Bind([x \in {expect_keyword(p, kw("For"))} |-> IF ~ x.ok THEN Err(x.p) ELSE
    Bind([pat \in {call("parse_pat", x.p, <<>>)} |-> IF ~ pat.ok THEN Err(pat.p) ELSE
    Bind([y \in {expect_keyword(pat.p, kw("In"))} |-> IF ~ y.ok THEN Err(y.p) ELSE
    Bind([iter \in {call("parse_expr", y.p, <<>>)} |-> IF ~ iter.ok THEN Err(iter.p) ELSE
    Bind([body \in {call("parse_block", iter.p, <<>>)} |-> IF ~ body.ok THEN Err(body.p) ELSE
    Ok(body.p, Variant("For", [pat |-> pat.v, iter |-> iter.v, body |-> body.v]))])])])])])

\* Parser::parse_loop_expr
parse_loop_expr(p) ==
    Bind([x \in {expect_keyword(p, kw("Loop"))} |-> IF ~ x.ok THEN Err(x.p) ELSE
    Bind([body \in {call("parse_block", x.p, <<>>)} |-> IF ~ body.ok THEN Err(body.p) ELSE
    Ok(body.p, Variant("Loop", body.v))])])

\* mutant: the `;` after `return` is looked at and left in place
parse_return_expr_semi_kept(p) ==
    Bind([x \in {expect_keyword(p, kw("Return"))} |-> IF ~ x.ok THEN Err(x.p) ELSE
    Bind([expr \in {IF ~ check(x.p, Semi) THEN OkSome(call("parse_expr", x.p, <<>>))
                   ELSE Ok(x.p, None)} |-> IF ~ expr.ok THEN Err(expr.p) ELSE
    Ok(expr.p, Variant("Return", expr.v))])])

\* Parser::parse_return_expr
parse_return_expr(p) ==
    Bind([x \in {expect_keyword(p, kw("Return"))} |-> IF ~ x.ok THEN Err(x.p) ELSE
    Bind([e \in {eat(x.p, Semi)} |->
    Bind([expr \in {IF ~ e.v THEN OkSome(call("parse_expr", e.p, <<>>))
                   ELSE Ok(e.p, None)} |-> IF ~ expr.ok THEN Err(expr.p) ELSE
    Ok(expr.p, Variant("Return", expr.v))])])])

\* Parser::parse_break_expr
parse_break_expr(p) ==
    Bind([x \in {expect_keyword(p, kw("Break"))} |-> IF ~ x.ok THEN Err(x.p) ELSE
    Bind([e \in {eat(x.p, Semi)} |->
    Bind([expr \in {IF ~ e.v THEN OkSome(call("parse_expr", e.p, <<>>))
                   ELSE Ok(e.p, None)} |-> IF ~ expr.ok THEN Err(expr.p) ELSE
    Ok(expr.p, Variant("Break", expr.v))])])])

(***************************************************************************)
(* Parser: statements and blocks                                           *)
(***************************************************************************)
\* Parser::parse_stmt
parse_stmt(p) ==
    Bind([stmt \in {call("parse_stmt_kind", p, <<>>)} |-> IF ~ stmt.ok THEN Err(stmt.p) ELSE
    Ok(stmt.p, Stmt(stmt.v, to(p.token.span, stmt.p.prev_token.span)))])

\* Parser::parse_stmt_kind
parse_stmt_kind(p) ==
    IF check_keyword(p, kw("Let"))
    THEN Bind([l \in {call("parse_let_stmt", p, <<>>)} |->
         IF ~ l.ok THEN Err(l.p) ELSE Ok(l.p, Variant("Let", l.v))])
    ELSE
    Bind([item \in {call("parse_item", p, <<>>)} |-> IF ~ item.ok THEN Err(item.p) ELSE
    IF item.v # None THEN Ok(item.p, Variant("Item", item.v[1])) ELSE
    Bind([e \in {eat(item.p, Semi)} |->
    IF e.v THEN Ok(e.p, Unit("Empty")) ELSE
    Bind([expr \in {call("parse_expr", e.p, <<>>)} |-> IF ~ expr.ok THEN Err(expr.p) ELSE
    Ok(expr.p, Variant("Expr", expr.v))])])])

\* Parser::parse_let_stmt
parse_let_stmt(p) ==
    Bind([x \in {expect_keyword(p, kw("Let"))} |-> IF ~ x.ok THEN Err(x.p) ELSE
    Bind([pat \in {call("parse_pat", x.p, <<>>)} |-> IF ~ pat.ok THEN Err(pat.p) ELSE
    Bind([c \in {eat(pat.p, Colon)} |->
    Bind([ty \in {IF c.v THEN OkSome(call("parse_ty", c.p, <<>>)) ELSE Ok(c.p, None)} |->
    IF ~ ty.ok THEN Err(ty.p) ELSE
    Bind([e \in {eat(ty.p, Eq)} |->
    Bind([init \in {IF e.v THEN OkSome(call("parse_expr", e.p, <<>>)) ELSE Ok(e.p, None)} |->
    IF ~ init.ok THEN Err(init.p) ELSE
    Bind([s \in {expect(init.p, Semi)} |-> IF ~ s.ok THEN Err(s.p) ELSE
    Ok(s.p, [pat |-> pat.v, ty |-> ty.v, init |-> init.v,
             span |-> to(p.token.span, s.p.prev_token.span)])])])])])])])])

\* Parser::parse_block
parse_block(p) ==
    Bind([stmts \in {parse_braced(p, "parse_stmt")} |-> IF ~ stmts.ok THEN Err(stmts.p) ELSE
    Ok(stmts.p, Block(stmts.v, to(p.token.span, stmts.p.prev_token.span)))])

(***************************************************************************)
(* Parser: items                                                           *)
(***************************************************************************)
\* parse_visibility with the `pub` consumed but forgotten: Inherited is returned
parse_visibility_inherited(p) ==
    Bind([e \in {eat_keyword(p, kw("Pub"))} |-> Ok(e.p, "Inherited")])

\* Parser::parse_visibility
parse_visibility(p) ==
    Bind([e \in {eat_keyword(p, kw("Pub"))} |->
    IF ~ e.v THEN Ok(e.p, "Inherited") ELSE Ok(e.p, "Public")])

\* Parser::parse_item: Result<Option<Item>, ParseError>
parse_item(p) ==
    Bind([vis \in {parse_visibility(p)} |-> IF ~ vis.ok THEN Err(vis.p) ELSE
    Bind([item_type \in {parse_ident(vis.p, FALSE)} |->
    IF ~ item_type.ok THEN Err(item_type.p) ELSE
    IF item_type.v.name \notin {kw("Fn"), kw("Struct"), kw("Enum"), kw("Mod"), kw("Use")}
    THEN IF vis.v = "Inherited" THEN Ok(item_type.p, None) ELSE Err(item_type.p)
    ELSE
    Bind([info \in {CASE item_type.v.name = kw("Fn") ->
                          call("parse_fn_item", item_type.p, <<>>)
                     [] item_type.v.name = kw("Struct") ->
                          call("parse_struct_item", item_type.p, <<>>)
                     [] item_type.v.name = kw("Enum") ->
                          call("parse_enum_item", item_type.p, <<>>)
                     [] item_type.v.name = kw("Mod") ->
                          call("parse_mod_item", item_type.p, <<>>)
                     [] item_type.v.name = kw("Use") ->
                          call("parse_use_item", item_type.p, <<>>)} |->
                          IF ~ info.ok THEN Err(info.p) ELSE
    Ok(info.p, Some(Item(vis.v, info.v.kind, info.v.ident,
                         to(vis.p.token.span, info.p.prev_token.span))))])])])

\* type ItemInfo = (ItemKind, Ident)
ItemInfo(kind, ident) == [kind |-> kind, ident |-> ident]

\* Parser::parse_fn_item
parse_fn_item(p) ==
    Bind([e \in {eat_keyword(p, kw("Fn"))} |->
    IF ~ e.v THEN Err(e.p) ELSE
    Bind([ident \in {parse_ident(e.p, TRUE)} |-> IF ~ ident.ok THEN Err(ident.p) ELSE
    Bind([params \in {parse_parenthesized(ident.p, "parse_param")} |->
    IF ~ params.ok THEN Err(params.p) ELSE
    Bind([arrow \in {eat(params.p, RArrow)} |->
    Bind([ret_ty \in {IF arrow.v THEN OkSome(call("parse_ty", arrow.p, <<>>))
                     ELSE Ok(arrow.p, None)} |-> IF ~ ret_ty.ok THEN Err(ret_ty.p) ELSE
    Bind([body \in {call("parse_body", ret_ty.p, <<>>)} |-> IF ~ body.ok THEN Err(body.p) ELSE
    Ok(body.p, ItemInfo(Variant("Fn", [sig |-> [params |-> params.v, ret_ty |-> ret_ty.v,
                                               span |-> to(p.token.span,
                                                           ret_ty.p.prev_token.span)],
                                       body |-> body.v]),
                        ident.v))])])])])])])

\* Parser::parse_param
parse_param(p) ==
    Bind([ident \in {call("parse_pat", p, <<>>)} |-> IF ~ ident.ok THEN Err(ident.p) ELSE
    Bind([x \in {expect(ident.p, Colon)} |-> IF ~ x.ok THEN Err(x.p) ELSE
    Bind([ty \in {call("parse_ty", x.p, <<>>)} |-> IF ~ ty.ok THEN Err(ty.p) ELSE
    Ok(ty.p, [ident |-> ident.v, ty |-> ty.v,
              span |-> to(p.token.span, ty.p.prev_token.span)])])])])

\* Parser::parse_body
parse_body(p) == call("parse_block", p, <<>>)

\* Parser::parse_struct_item
parse_struct_item(p) ==
    Bind([e \in {eat_keyword(p, kw("Struct"))} |->
    IF ~ e.v THEN Err(e.p) ELSE
    Bind([ident \in {parse_ident(e.p, TRUE)} |-> IF ~ ident.ok THEN Err(ident.p) ELSE
    Bind([fields \in {
          IF check_delim(ident.p, "Brace")
          THEN Bind([fs \in {parse_braced(ident.p, "parse_struct_field")} |->
               IF ~ fs.ok THEN Err(fs.p) ELSE
               Ok(fs.p, Variant("Struct", fs.v))])
          ELSE IF check_delim(ident.p, "Paren")
          THEN Bind([fs \in {parse_parenthesized(ident.p, "parse_tuple_field")} |->
               IF ~ fs.ok THEN Err(fs.p) ELSE
               Bind([s \in {expect_semi(fs.p)} |->
               IF ~ s.ok THEN Err(s.p) ELSE Ok(s.p, Variant("Tuple", fs.v))])])
          ELSE Bind([s \in {expect_semi(ident.p)} |->
               IF ~ s.ok THEN Err(s.p) ELSE
               Ok(s.p, Unit("Unit"))])} |-> IF ~ fields.ok THEN Err(fields.p) ELSE
    Ok(fields.p, ItemInfo(Variant("Struct", [fields |-> fields.v]), ident.v))])])])

\* Parser::parse_struct_field
parse_struct_field(p) ==
    Bind([vis \in {parse_visibility(p)} |-> IF ~ vis.ok THEN Err(vis.p) ELSE
    Bind([ident \in {parse_ident(vis.p, TRUE)} |-> IF ~ ident.ok THEN Err(ident.p) ELSE
    Bind([x \in {expect(ident.p, Colon)} |-> IF ~ x.ok THEN Err(x.p) ELSE
    Bind([ty \in {call("parse_ty", x.p, <<>>)} |-> IF ~ ty.ok THEN Err(ty.p) ELSE
    Ok(ty.p, <<vis.v, ident.v, ty.v>>)])])])])

\* Parser::parse_tuple_field
parse_tuple_field(p) ==
    Bind([vis \in {parse_visibility(p)} |-> IF ~ vis.ok THEN Err(vis.p) ELSE
    Bind([ty \in {call("parse_ty", vis.p, <<>>)} |-> IF ~ ty.ok THEN Err(ty.p) ELSE
    Ok(ty.p, <<vis.v, ty.v>>)])])

\* Parser::parse_enum_item
parse_enum_item(p) ==
    Bind([e \in {eat_keyword(p, kw("Enum"))} |->
    IF ~ e.v THEN Err(e.p) ELSE
    Bind([ident \in {parse_ident(e.p, TRUE)} |-> IF ~ ident.ok THEN Err(ident.p) ELSE
    Bind([variants \in {
          IF check_delim(ident.p, "Brace")
          THEN OkSome(parse_braced(ident.p, "parse_variant"))
          ELSE Bind([s \in {expect_semi(ident.p)} |->
               IF ~ s.ok THEN Err(s.p) ELSE
               Ok(s.p, None)])} |-> IF ~ variants.ok THEN Err(variants.p) ELSE
    Ok(variants.p, ItemInfo(Variant("Enum", [variants |-> variants.v]), ident.v))])])])

\* Parser::parse_variant
parse_variant(p) ==
    Bind([ident \in {parse_ident(p, TRUE)} |-> IF ~ ident.ok THEN Err(ident.p) ELSE
    Bind([fields \in {
          IF check_delim(ident.p, "Brace")
          THEN Bind([fs \in {parse_braced(ident.p, "parse_struct_field")} |->
               IF ~ fs.ok THEN Err(fs.p) ELSE
               Ok(fs.p, Variant("Struct", fs.v))])
          ELSE IF check_delim(ident.p, "Paren")
          THEN Bind([fs \in {parse_parenthesized(ident.p, "parse_tuple_field")} |->
               IF ~ fs.ok THEN Err(fs.p) ELSE
               Ok(fs.p, Variant("Tuple", fs.v))])
          ELSE Ok(ident.p, Unit("Unit"))} |-> IF ~ fields.ok THEN Err(fields.p) ELSE
    Ok(fields.p, [ident |-> ident.v, fields |-> fields.v])])])

\* Parser::parse_mod_item
parse_mod_item(p) ==
    Bind([e \in {eat_keyword(p, kw("Mod"))} |->
    IF ~ e.v THEN Err(e.p) ELSE
    Bind([ident \in {parse_ident(e.p, TRUE)} |-> IF ~ ident.ok THEN Err(ident.p) ELSE
    Bind([s \in {eat(ident.p, Semi)} |->
    Bind([kind \in {
          IF s.v THEN Ok(s.p, Unit("Unloaded"))
          ELSE Bind([m \in {call("parse_mod", s.p, <<>>)} |-> IF ~ m.ok THEN Err(m.p) ELSE
               Ok(m.p, Variant("Loaded", <<m.v.items, "Yes", m.v.span>>))])} |->
               IF ~ kind.ok THEN Err(kind.p) ELSE
    Ok(kind.p, ItemInfo(Variant("Mod", kind.v), ident.v))])])])])

\* One round of the while loop of parse_mod: the items so far, or the error
parse_mod_round(p, items) ==
    Bind([item \in {call("parse_item", p, <<>>)} |-> IF ~ item.ok THEN Err(item.p) ELSE
    IF item.v = None THEN Ok(item.p, items)
    ELSE Ok(item.p, Append(items, item.v[1]))])

\* The while loop of parse_mod; a round that leaves the Parser fields and the
\* items as they were is followed by the same round without end
RECURSIVE parse_mod_loop(_, _)
parse_mod_loop(p, items) ==
    IF p.halt # "" THEN Err(p) ELSE
    IF is_eof(p.cursor) THEN Ok(p, items) ELSE
    Bind([round \in {parse_mod_round(p, items)} |-> IF ~ round.ok THEN Err(round.p) ELSE
    IF Frame(round.p, "", items) = Frame(p, "", round.v)
    THEN Err(Halt(round.p, "does not terminate"))
    ELSE parse_mod_loop(round.p, round.v)])

\* Parser::parse_mod: Result<(ThinVec<Item>, Span), ParseError>
parse_mod(p) ==
    Bind([items \in {parse_mod_loop(p, <<>>)} |-> IF ~ items.ok THEN Err(items.p) ELSE
    Ok(items.p, [items |-> items.v, span |-> to(p.token.span, items.p.prev_token.span)])])

\* Parser::parse_use_item
parse_use_item(p) ==
    Bind([e \in {eat_keyword(p, kw("Use"))} |->
    IF ~ e.v THEN Err(e.p) ELSE
    Bind([tree \in {call("parse_use_tree", e.p, <<>>)} |-> IF ~ tree.ok THEN Err(tree.p) ELSE
    Ok(tree.p, ItemInfo(Variant("Use", tree.v), Ident_empty))])])

\* Parser::parse_use_tree
parse_use_tree(p) ==
    Bind([base \in {call("parse_path", p, <<"Mod">>)} |-> IF ~ base.ok THEN Err(base.p) ELSE
    Bind([dc \in {eat(base.p, DoubleColon)} |->
    Bind([kind \in {
          IF dc.v
          THEN Bind([star \in {eat(dc.p, BinOp("Mul"))} |->
               IF star.v THEN Ok(star.p, Unit("Glob"))
               ELSE Bind([nested \in {parse_braced(star.p, "parse_use_tree")} |->
                    IF ~ nested.ok THEN Err(nested.p) ELSE
                    Ok(nested.p, Variant("Nested", nested.v))])])
          ELSE Bind([as \in {eat_keyword(dc.p, kw("As"))} |->
               Bind([rename \in {IF as.v THEN OkSome(parse_ident(as.p, TRUE))
                                ELSE Ok(as.p, None)} |-> IF ~ rename.ok THEN Err(rename.p) ELSE
               Ok(rename.p, Variant("Single", rename.v))])])} |->
               IF ~ kind.ok THEN Err(kind.p) ELSE
    Ok(kind.p, [base |-> base.v, kind |-> kind.v,
                span |-> to(p.token.span, kind.p.prev_token.span)])])])])

\* Parser::parse_crate
parse_crate(p) ==
    Bind([m \in {call("parse_mod", p, <<>>)} |-> IF ~ m.ok THEN Err(m.p) ELSE
    Ok(m.p, Crate(m.v.items, m.v.span))])

\* self.f(a...): the step of the budget, then the method
call(f, p0, a) ==
    IF f = "advance" THEN Parser_advance(p0)
    ELSE IF f = "advance_int" THEN advance_int(p0)
    ELSE
    Bind([p \in {Enter(Tick(p0), f, a)} |->
    [(CASE f = "parse_path" -> parse_path(p, a[1])
      [] f = "parse_bin_rhs" -> parse_bin_rhs(p, a[1], a[2])
      [] f = "parse_ty" -> parse_ty(p)
      [] f = "parse_ty_kind" -> parse_ty_kind(p)
      [] f = "parse_pat" -> parse_pat(p)
      [] f = "parse_pat_kind" -> parse_pat_kind(p)
      [] f = "parse_pat_field" -> parse_pat_field(p)
      [] f = "parse_expr" -> parse_expr(p)
      [] f = "parse_unary_expr" -> parse_unary_expr(p)
      [] f = "parse_primary_expr" -> parse_primary_expr(p)
      [] f = "parse_struct_expr_field" -> parse_struct_expr_field(p)
      [] f = "parse_if_expr" -> parse_if_expr(p)
      [] f = "parse_while_expr" -> parse_while_expr(p)
      [] f = "parse_for_expr" -> parse_for_expr(p)
      [] f = "parse_loop_expr" -> parse_loop_expr(p)
      [] f = "parse_return_expr" -> parse_return_expr(p)
      [] f = "parse_break_expr" -> parse_break_expr(p)
      [] f = "parse_stmt" -> parse_stmt(p)
      [] f = "parse_stmt_kind" -> parse_stmt_kind(p)
      [] f = "parse_let_stmt" -> parse_let_stmt(p)
      [] f = "parse_block" -> parse_block(p)
      [] f = "parse_item" -> parse_item(p)
      [] f = "parse_fn_item" -> parse_fn_item(p)
      [] f = "parse_param" -> parse_param(p)
      [] f = "parse_body" -> parse_body(p)
      [] f = "parse_struct_item" -> parse_struct_item(p)
      [] f = "parse_struct_field" -> parse_struct_field(p)
      [] f = "parse_tuple_field" -> parse_tuple_field(p)
      [] f = "parse_enum_item" -> parse_enum_item(p)
      [] f = "parse_variant" -> parse_variant(p)
      [] f = "parse_mod_item" -> parse_mod_item(p)
      [] f = "parse_mod" -> parse_mod(p)
      [] f = "parse_use_item" -> parse_use_item(p)
      [] f = "parse_use_tree" -> parse_use_tree(p)
      [] f = "parse_parenthesized" -> parse_parenthesized(p, a[1]))
     EXCEPT !.p.frames = p0.frames]])

(***************************************************************************)
(* The lexer driven over a source text                                     *)
(***************************************************************************)
\* The sequences over S of length at most n
SeqsUpTo(S, n) == UNION {[1..k -> S] : k \in 0..n}

\* The operator start characters, a letter and a blank
OpsAlphabet == {"=", "+", "-", "*", "^", "%", "!", ":", "/", "&", "|", ">", "<", "a", " "}

\* Identifier, number, string, comment and whitespace characters
MixAlphabet == {"a", "1", ".", "=", " ", "\n", "/", "*", "\"", "U+00E9"}

\* No method has returned
NoRet == [of |-> "", args |-> <<>>, ok |-> FALSE, v |-> <<>>, at |-> DUMMY_TOKEN]

\* No Parser has been constructed
NoParser ==
    /\ token = DUMMY_TOKEN
    /\ prev_token = DUMMY_TOKEN
    /\ ppc = "none"
    /\ mod_items = <<>>
    /\ mod_start = DUMMY_SP
    /\ result = [tag |-> "Pending", crate |-> Crate(<<>>, DUMMY_SP)]
    /\ ret = NoRet

\* Lexer::new(input), before the first advance
LexStart(input) ==
    /\ src = input
    /\ cursor = Cursor_new(input)
    /\ toks = <<>>
    /\ panic = ""
    /\ inner = fresh
    /\ mutex = NoThread
    /\ pc = [t \in Threads |-> "idle"]
    /\ arg = [t \in Threads |-> ""]
    /\ rets = {}
    /\ getlog = {}
    /\ NoParser

\* Identifier texts around the reserved words, a digit, a blank and an operator
WordPieces ==
    { <<"t", "r", "u", "e">>, <<"f", "a", "l", "s", "e">>, <<"l", "e", "t">>, <<"f", "n">>,
      <<"s", "u", "p", "e", "r">>, <<"x">>, <<"_">>, <<"1">>, <<" ">>, <<"=">> }

RECURSIVE Flatten(_)
Flatten(ws) == IF ws = <<>> THEN <<>> ELSE Head(ws) \o Flatten(Tail(ws))

\* The ten single-character tokens of the token model
PunctChars == {".", ",", ";", "#", "(", ")", "{", "}", "[", "]"}

\* What may follow one of them: every class of character the lexer tells apart
FollowAlphabet ==
    PunctChars \cup OpsAlphabet \cup {"A", "_", "0", "9", "\n", "\t", "\"", "~", "U+00E9", "U+00A0"}

InitLexOps == \E input \in SeqsUpTo(OpsAlphabet, MaxOpsLen) : LexStart(input)

InitLexMix == \E input \in SeqsUpTo(MixAlphabet, MaxMixLen) : LexStart(input)

InitLexWords == \E ws \in SeqsUpTo(WordPieces, MaxWords) : LexStart(Flatten(ws))

InitLexPunct ==
    \E first \in PunctChars : \E rest \in SeqsUpTo(FollowAlphabet, MaxPunctFollow) :
        LexStart(<<first>> \o rest)

\* The number of Eof tokens returned so far
EofCalls == Cardinality({i \in 1..Len(toks) : toks[i].kind = Eof})

\* One call of Lexer::advance
Advance ==
    /\ panic = ""
    /\ EofCalls < MaxEofCalls
    /\ \E r \in {advance(cursor, inner)} :
           /\ cursor' = r.cur
           /\ inner' = r.inner
           /\ panic' = r.panic
           /\ toks' = IF r.panic = "" THEN Append(toks, r.tok) ELSE toks
    /\ UNCHANGED <<src, internVars, parseVars>>

NextLex == Advance

SpecLexOps == InitLexOps /\ [][NextLex]_vars

SpecLexMix == InitLexMix /\ [][NextLex]_vars

SpecLexWords == InitLexWords /\ [][NextLex]_vars

SpecLexPunct == InitLexPunct /\ [][NextLex]_vars

\* The characters the number scan tells apart: digits, the dot and another
NumAlphabet == {"1", "2", "3", ".", "a"}

InitLexNum == \E input \in SeqsUpTo(NumAlphabet, MaxNumLen) : LexStart(input)

\* lexer.scan_number(None, scan_float), once, at any place in the source that
\* Lexer::advance calls have led to
ScanNumber ==
    /\ panic = ""
    /\ ret = NoRet
    /\ \E scan_float \in BOOLEAN :
       \E r \in {scan_number(cursor, inner, "", scan_float)} :
           /\ cursor' = r.cur
           /\ inner' = r.inner
           /\ ret' = [of |-> "scan_number", args |-> <<scan_float>>, ok |-> TRUE,
                      v |-> r.tok, at |-> DUMMY_TOKEN]
    /\ UNCHANGED <<src, toks, panic, internVars, token, prev_token, ppc, mod_items,
                   mod_start, result>>

NextLexNum == Advance \/ ScanNumber

SpecLexNum == InitLexNum /\ [][NextLexNum]_vars

(***************************************************************************)
(* The parser driven over a source text: Parser::new, then parse_crate     *)
(***************************************************************************)
\* `fn main() {}`
FnMainSrc == <<"f", "n", " ", "m", "a", "i", "n", "(", ")", " ", "{", "}">>

\* Well-formed items, one of each kind, with the kind parse_item is to select
WellFormedItems ==
    { [text |-> FnMainSrc, kind |-> "Fn"],
      [text |-> <<"s", "t", "r", "u", "c", "t", " ", "S", ";">>, kind |-> "Struct"],
      [text |-> <<"e", "n", "u", "m", " ", "E", ";">>, kind |-> "Enum"],
      [text |-> <<"m", "o", "d", " ", "m", ";">>, kind |-> "Mod"],
      [text |-> <<"u", "s", "e", " ", "a">>, kind |-> "Use"] }

\* `pub `
PubPrefix == <<"p", "u", "b", " ">>

\* The pieces a crate source is put together from: the items above, `pub `,
\* single tokens, a blank and a character the lexer rejects
ParsePieces ==
    {w.text : w \in WellFormedItems}
        \cup {PubPrefix, <<"f", "n">>, <<"x">>, <<"1">>, <<";">>, <<" ">>, <<"#">>}

\* Parser::new(input) is about to run
ParseStart(input) ==
    /\ src = input
    /\ cursor = Cursor_new(input)
    /\ toks = <<>>
    /\ panic = ""
    /\ inner = fresh
    /\ mutex = NoThread
    /\ pc = [t \in Threads |-> "idle"]
    /\ arg = [t \in Threads |-> ""]
    /\ rets = {}
    /\ getlog = {}
    /\ token = DUMMY_TOKEN
    /\ prev_token = DUMMY_TOKEN
    /\ ppc = "new"
    /\ mod_items = <<>>
    /\ mod_start = DUMMY_SP
    /\ result = [tag |-> "Pending", crate |-> Crate(<<>>, DUMMY_SP)]
    /\ ret = NoRet

InitParse == \E ws \in SeqsUpTo(ParsePieces, MaxPieces) : ParseStart(Flatten(ws))

\* The Parser of the current state, with a fresh budget for the next call
ThisParser == Parser(cursor, inner, token, prev_token, MaxSteps)

\* The Parser fields after a call; a call the process stopped in leaves ppc at "halted"
ParserBecomes(p, next_ppc) ==
    /\ cursor' = p.cursor
    /\ inner' = p.inner
    /\ panic' = p.halt
    /\ token' = IF p.halt = "" THEN p.token ELSE token
    /\ prev_token' = IF p.halt = "" THEN p.prev_token ELSE prev_token
    /\ ppc' = IF p.halt = "" THEN next_ppc ELSE "halted"

\* Parser::new: the fields are set to DUMMY_TOKEN and advance() runs once
ParserNew ==
    /\ ppc = "new"
    /\ \E p \in {Parser_advance(ThisParser)} : ParserBecomes(p, "ready")
    /\ UNCHANGED <<src, toks, internVars, mod_items, mod_start, result, ret>>

\* parse_crate calls parse_mod: let start = self.token.span; let mut items = thin_vec![]
ParseCrateCall ==
    /\ ppc = "ready"
    /\ mod_start' = token.span
    /\ mod_items' = <<>>
    /\ ppc' = "mod_loop"
    /\ UNCHANGED <<inner, internVars, lexVars, token, prev_token, result, ret>>

\* One round of `while !self.lexer.is_eof()`: parse_item()? pushes an item,
\* continues on None, or returns the error through parse_crate
ParseModRound ==
    /\ ppc = "mod_loop"
    /\ ~ is_eof(cursor)
    /\ \E r \in {parse_mod_round(ThisParser, mod_items)} :
           /\ ParserBecomes(r.p, IF r.ok THEN "mod_loop" ELSE "done")
           /\ mod_items' = IF r.ok /\ r.p.halt = "" THEN r.v ELSE mod_items
           /\ result' = IF ~ r.ok /\ r.p.halt = ""
                        THEN [result EXCEPT !.tag = "Err"]
                        ELSE result
    /\ UNCHANGED <<src, toks, internVars, mod_start, ret>>

\* The loop ends: Ok((items, start.to(self.prev_token.span))), and parse_crate
\* returns Ok(Crate { items, span })
ParseCrateReturn ==
    /\ ppc = "mod_loop"
    /\ is_eof(cursor)
    /\ result' = [tag |-> "Ok", crate |-> Crate(mod_items, to(mod_start, prev_token.span))]
    /\ ppc' = "done"
    /\ UNCHANGED <<inner, internVars, lexVars, token, prev_token, mod_items, mod_start, ret>>

NextParse ==
    \/ ParserNew
    \/ ParseCrateCall
    \/ ParseModRound
    \/ ParseCrateReturn

SpecParse == InitParse /\ [][NextParse]_vars

\* The pieces of the sources parse_crate is run to its end on: nothing, single
\* tokens, a blank, a character the lexer rejects, `pub ` and two items
RunPieces ==
    {<<>>, <<"x">>, <<"1">>, <<";">>, <<" ">>, <<"#">>, <<"f", "n">>, PubPrefix,
     <<"m", "o", "d", " ", "m", ";">>, <<"u", "s", "e", " ", "a">>}

InitParseRun == \E a, b \in RunPieces : ParseStart(a \o b)

\* The program is sequential and runs on: once parse_crate is called, each of
\* its steps that can be taken is taken
SpecParseFair ==
    /\ InitParseRun
    /\ [][NextParse]_vars
    /\ WF_vars(ParseCrateCall)
    /\ WF_vars(ParseModRound)
    /\ WF_vars(ParseCrateReturn)

(***************************************************************************)
(* The parser's public methods called on a source text: Parser::new, then  *)
(* one method                                                              *)
(***************************************************************************)
\* The binary operators written between the operands of an expression source
OperatorTexts ==
    {<<"-">>, <<"+">>, <<"*">>, <<"=">>, <<"+", "=">>, <<"=", "=">>, <<"&", "&">>}

\* The operands of an expression source, by position
OperandTexts == <<"a", "b", "c", "d", "e">>

\* `a op1 b op2 c ...`, blanks between operands and operators
RECURSIVE ExprSrc(_)
ExprSrc(ops) ==
    IF ops = <<>> THEN <<OperandTexts[1]>>
    ELSE ExprSrc(SubSeq(ops, 1, Len(ops) - 1))
             \o <<" ">> \o ops[Len(ops)] \o <<" ", OperandTexts[Len(ops) + 1]>>

ExprSources == {ExprSrc(ops) : ops \in SeqsUpTo(OperatorTexts, MaxOperators)}

\* `if a { } else if b { } else { }`
IfChainSrc ==
    <<"i", "f", " ", "a", " ", "{", " ", "}", " ", "e", "l", "s", "e", " ", "i", "f", " ", "b",
      " ", "{", " ", "}", " ", "e", "l", "s", "e", " ", "{", " ", "}">>

\* `mod m { }`
ModBraceSrc == <<"m", "o", "d", " ", "m", " ", "{", " ", "}">>

\* `mod m { mod n; }`
ModNestedSrc ==
    <<"m", "o", "d", " ", "m", " ", "{", " ", "m", "o", "d", " ", "n", ";", " ", "}">>

\* `mod m;`
ModSemiSrc == <<"m", "o", "d", " ", "m", ";">>

\* `use a::b::{c, d as e}`
UseNestedSrc ==
    <<"u", "s", "e", " ", "a", ":", ":", "b", ":", ":", "{", "c", ",", " ", "d", " ", "a", "s",
      " ", "e", "}">>

\* `use a::*`
UseGlobSrc == <<"u", "s", "e", " ", "a", ":", ":", "*">>

\* `a::b::{c, d as e}`
PathNestedSrc ==
    <<"a", ":", ":", "b", ":", ":", "{", "c", ",", " ", "d", " ", "a", "s", " ", "e", "}">>

\* `a::*`
PathGlobSrc == <<"a", ":", ":", "*">>

\* `let x = 1;`
LetSrc == <<"l", "e", "t", " ", "x", " ", "=", " ", "1", ";">>

\* `x.0`
FieldIndexSrc == <<"x", ".", "0">>

\* `x.y`
FieldNameSrc == <<"x", ".", "y">>

\* `a { b }`
IndexSrc == <<"a", " ", "{", " ", "b", " ", "}">>

\* `a { b`
IndexOpenSrc == <<"a", " ", "{", " ", "b">>

\* `while x { }`
WhileSrc == <<"w", "h", "i", "l", "e", " ", "x", " ", "{", " ", "}">>

\* `self::a`
SelfPathSrc == <<"s", "e", "l", "f", ":", ":", "a">>

\* `return;`
ReturnSemiSrc == <<"r", "e", "t", "u", "r", "n", ";">>

\* `let x: _ = e;`
LetInferSrc == <<"l", "e", "t", " ", "x", ":", " ", "_", " ", "=", " ", "e", ";">>

\* Sources of the other productions: if chains, mod and use items, paths,
\* statements, items, field accesses and types
SampleSources ==
    { IfChainSrc,
      <<"i", "f", " ", "a", " ", "{", " ", "}">>,
      <<"i", "f", " ", "a", " ", "{", " ", "}", " ", "e", "l", "s", "e", " ", "{", " ", "}">>,
      ModBraceSrc,
      ModSemiSrc,
      <<"m", "o", "d", " ", "m">>,
      ModNestedSrc,
      UseNestedSrc,
      UseGlobSrc,
      <<"u", "s", "e", " ", "a">>,
      <<"u", "s", "e", " ", "a", " ", "a", "s", " ", "b">>,
      PathNestedSrc,
      PathGlobSrc,
      <<"a", ":", ":", "b">>,
      <<";">>,
      <<"1">>,
      <<"(", "a", ")">>,
      <<"{", " ", "}">>,
      <<"[", "a", "]">>,
      LetSrc,
      <<"l", "e", "t", " ", "x", ";">>,
      <<"x">>,
      <<"a", " ", "b">>,
      <<"p", "u", "b", " ", "x">>,
      <<"t", "r", "u", "e">>,
      <<"p", "u", "b", " ", "t", "r", "u", "e">>,
      <<"f", "n", " ", "f", "(", ")", " ", "{", "}">>,
      <<"p", "u", "b">>,
      FieldIndexSrc,
      FieldNameSrc,
      <<"x", ".", "0", ".", "1">>,
      <<"_">>,
      IndexSrc,
      IndexOpenSrc,
      <<"a", " ", "{", " ", "b", " ", ";">>,
      WhileSrc,
      <<"w", "h", "i", "l", "e">>,
      <<"w", "h", "i", "l", "e", " ", "t", "r", "u", "e">>,
      SelfPathSrc,
      <<"c", "r", "a", "t", "e">>,
      <<"a", ":", ":", "s", "e", "l", "f">>,
      <<"a", ":", ":", "s", "u", "p", "e", "r", ":", ":", "b">>,
      <<"a", ":", ":", "l", "e", "t">>,
      <<"s", "u", "p", "e", "r", ":", ":", "a">>,
      <<"(", "a", ",", ")">>,
      <<"(", "a", ",", "b", ")">>,
      <<"(", "a", ",", "b", ",", ")">>,
      <<"(", ",", "a", ")">>,
      <<"(", "a", ",", ",", "b", ")">>,
      <<"(", "a", " ", "b", ")">>,
      <<"(", ",", ")">>,
      <<"(", "a", ",", "b">>,
      ReturnSemiSrc,
      <<"r", "e", "t", "u", "r", "n", " ", "x">>,
      <<"r", "e", "t", "u", "r", "n", " ", "x", ";">>,
      <<"b", "r", "e", "a", "k", ";">>,
      <<"b", "r", "e", "a", "k", " ", "x">>,
      <<"b", "r", "e", "a", "k">>,
      <<"r", "e", "t", "u", "r", "n", " ", "a", " ", "+", " ", "b">>,
      LetInferSrc,
      <<"_", "[", "]">>,
      <<"l", "e", "t", " ", "x", ":", " ", "a", " ", "=", " ", "e", ";">>,
      <<"a", "[", "]">>,
      <<"(", ")">> }

\* n blanks
RECURSIVE Blanks(_)
Blanks(n) == IF n = 0 THEN <<>> ELSE <<" ">> \o Blanks(n - 1)

\* The sources, each also behind leading whitespace
MethodSources == {Blanks(n) \o s : n \in 0..MaxLeading, s \in ExprSources \cup SampleSources}

InitMethods == \E s \in MethodSources : ParseStart(s)

\* enum PathStyle
PathStyle == {"Expr", "Type", "Mod"}

\* parser.f(a...) runs and returns: the Parser fields and the returned value
\* (ok FALSE and no value when it returned Err(ParseError) or the process
\* stopped inside the call)
Returns(f, a) ==
    /\ \E r \in {call(f, ThisParser, a)} :
           /\ ParserBecomes(r.p, "done")
           /\ ret' = [of |-> f, args |-> a, ok |-> r.ok /\ r.p.halt = "",
                      v |-> IF r.ok /\ r.p.halt = "" THEN r.v ELSE <<>>, at |-> token]
    /\ UNCHANGED <<src, toks, internVars, mod_items, mod_start, result>>

\* parser.parse_expr()
CallParseExpr ==
    /\ ppc = "ready"
    /\ Returns("parse_expr", <<>>)

\* parser.parse_primary_expr()
CallParsePrimaryExpr ==
    /\ ppc = "ready"
    /\ Returns("parse_primary_expr", <<>>)

\* A ThinVec<T> of the items
ThinVec(items) == [items |-> items]

\* parser.parse_parenthesized(|p| p.parse_expr()), likewise with parse_pat
CallParseParenthesized ==
    /\ ppc = "ready"
    /\ \E f \in {"parse_expr", "parse_pat"} :
       \E r \in {call("parse_parenthesized", ThisParser, <<f>>)} :
           /\ ParserBecomes(r.p, "done")
           /\ ret' = [of |-> "parse_parenthesized", args |-> <<f>>,
                      ok |-> r.ok /\ r.p.halt = "",
                      v |-> IF r.ok /\ r.p.halt = "" THEN ThinVec(r.v) ELSE <<>>,
                      at |-> token]
    /\ UNCHANGED <<src, toks, internVars, mod_items, mod_start, result>>

\* parser.parse_stmt()
CallParseStmt ==
    /\ ppc = "ready"
    /\ Returns("parse_stmt", <<>>)

\* parser.parse_block()
CallParseBlock ==
    /\ ppc = "ready"
    /\ Returns("parse_block", <<>>)

\* parser.parse_item()
CallParseItem ==
    /\ ppc = "ready"
    /\ Returns("parse_item", <<>>)

\* parser.parse_mod_item()
CallParseModItem ==
    /\ ppc = "ready"
    /\ Returns("parse_mod_item", <<>>)

\* parser.parse_mod()
CallParseMod ==
    /\ ppc = "ready"
    /\ Returns("parse_mod", <<>>)

\* parser.parse_use_item()
CallParseUseItem ==
    /\ ppc = "ready"
    /\ Returns("parse_use_item", <<>>)

\* parser.parse_use_tree()
CallParseUseTree ==
    /\ ppc = "ready"
    /\ Returns("parse_use_tree", <<>>)

\* parser.parse_path(style)
CallParsePath ==
    /\ ppc = "ready"
    /\ \E style \in PathStyle : Returns("parse_path", <<style>>)

\* parser.parse_ty()
CallParseTy ==
    /\ ppc = "ready"
    /\ Returns("parse_ty", <<>>)

\* parser.parse_pat()
CallParsePat ==
    /\ ppc = "ready"
    /\ Returns("parse_pat", <<>>)

NextMethods ==
    \/ ParserNew
    \/ CallParseExpr
    \/ CallParsePrimaryExpr
    \/ CallParseParenthesized
    \/ CallParseStmt
    \/ CallParseBlock
    \/ CallParseItem
    \/ CallParseModItem
    \/ CallParseMod
    \/ CallParseUseItem
    \/ CallParseUseTree
    \/ CallParsePath
    \/ CallParseTy
    \/ CallParsePat

SpecMethods == InitMethods /\ [][NextMethods]_vars

(***************************************************************************)
(* Lexer laws                                                              *)
(***************************************************************************)
\* The number of characters of src in front of byte offset b (Len(src) + 1
\* when b is inside a character or past the end)
CharsBefore(b) ==
    IF \E k \in 0..Len(src) : str_len(SubSeq(src, 1, k)) = b
    THEN CHOOSE k \in 0..Len(src) : str_len(SubSeq(src, 1, k)) = b
    ELSE Len(src) + 1

\* The characters of src in the bytes [lo, hi)
Slice(lo, hi) == SubSeq(src, CharsBefore(lo) + 1, CharsBefore(hi))

\* The text of a token
TokText(tok) == Slice(tok.span.lo, tok.span.hi)

RECURSIVE Cat(_)
Cat(s) == IF s = <<>> THEN "" ELSE Head(s) \o Cat(Tail(s))

\* p is a prefix of s
IsPrefix(p, s) == Len(p) <= Len(s) /\ SubSeq(s, 1, Len(p)) = p

\* The disambiguation table: every operator with its token kind.
OpTable ==
    { [text |-> <<"=">>, kind |-> Eq], [text |-> <<"=", "=">>, kind |-> CondOp("Eq")],
      [text |-> <<"+">>, kind |-> BinOp("Add")], [text |-> <<"+", "=">>, kind |-> BinOpEq("Add")],
      [text |-> <<"-">>, kind |-> BinOp("Sub")], [text |-> <<"-", "=">>, kind |-> BinOpEq("Sub")],
      [text |-> <<"-", ">">>, kind |-> RArrow],
      [text |-> <<"*">>, kind |-> BinOp("Mul")], [text |-> <<"*", "=">>, kind |-> BinOpEq("Mul")],
      [text |-> <<"/">>, kind |-> BinOp("Div")], [text |-> <<"/", "=">>, kind |-> BinOpEq("Div")],
      [text |-> <<"%">>, kind |-> BinOp("Rem")], [text |-> <<"%", "=">>, kind |-> BinOpEq("Rem")],
      [text |-> <<"^">>, kind |-> BinOp("BitXor")],
      [text |-> <<"^", "=">>, kind |-> BinOpEq("BitXor")],
      [text |-> <<"!">>, kind |-> UnOp("Not")], [text |-> <<"!", "=">>, kind |-> CondOp("Ne")],
      [text |-> <<":">>, kind |-> Colon], [text |-> <<":", ":">>, kind |-> DoubleColon],
      [text |-> <<"&">>, kind |-> BinOp("BitAnd")],
      [text |-> <<"&", "=">>, kind |-> BinOpEq("BitAnd")],
      [text |-> <<"&", "&">>, kind |-> BinOp("And")],
      [text |-> <<"&", "&", "=">>, kind |-> BinOpEq("And")],
      [text |-> <<"|">>, kind |-> BinOp("BitOr")],
      [text |-> <<"|", "=">>, kind |-> BinOpEq("BitOr")],
      [text |-> <<"|", "|">>, kind |-> BinOp("Or")],
      [text |-> <<"|", "|", "=">>, kind |-> BinOpEq("Or")],
      [text |-> <<"<">>, kind |-> CondOp("Lt")], [text |-> <<"<", "=">>, kind |-> CondOp("Le")],
      [text |-> <<"<", "<">>, kind |-> BinOp("Shl")],
      [text |-> <<"<", "<", "=">>, kind |-> BinOpEq("Shl")],
      [text |-> <<">">>, kind |-> CondOp("Gt")], [text |-> <<">", "=">>, kind |-> CondOp("Ge")],
      [text |-> <<">", ">">>, kind |-> BinOp("Shr")],
      [text |-> <<">", ">", "=">>, kind |-> BinOpEq("Shr")] }

OpStartChars == {e.text[1] : e \in OpTable}

\* The first token of the source `text` is of kind `kind` and spans all of it.
LexesAsOne(text, kind) ==
    (src = text /\ (toks # <<>> \/ panic # "")) =>
        (panic = "" /\ toks[1] = Token(kind, Span(0, Len(text))))

\* C5: maximal munch. Every token that starts on an operator start character
\* is the longest operator of the disambiguation table that matches the source
\* at that place, emitted as one token of that operator's kind; and the
\* operators `<<=`, `>>`, `-=`, `->`, `::`, `<=`, `&&=`, `||` each lex as one token.
C5_MaximalMunch ==
    /\ \A i \in 1..Len(toks) :
          LET lo == toks[i].span.lo
              rest == SubSeq(src, lo + 1, Len(src))
          IN  (rest # <<>> /\ rest[1] \in OpStartChars) =>
                  \E e \in OpTable :
                      /\ IsPrefix(e.text, rest)
                      /\ \A e2 \in OpTable : IsPrefix(e2.text, rest) => Len(e2.text) <= Len(e.text)
                      /\ toks[i] = Token(e.kind, Span(lo, lo + Len(e.text)))
    /\ LexesAsOne(<<"<", "<", "=">>, BinOpEq("Shl"))
    /\ LexesAsOne(<<">", ">">>, BinOp("Shr"))
    /\ LexesAsOne(<<"-", "=">>, BinOpEq("Sub"))
    /\ LexesAsOne(<<"-", ">">>, RArrow)
    /\ LexesAsOne(<<":", ":">>, DoubleColon)
    /\ LexesAsOne(<<"<", "=">>, CondOp("Le"))
    /\ LexesAsOne(<<"&", "&", "=">>, BinOpEq("And"))
    /\ LexesAsOne(<<"|", "|">>, BinOp("Or"))

\* C5 witness: `<<=` has been lexed as the single token BinOpEq(Shl) and the
\* next call found the end of the source.
C5_Witness ==
    /\ src = <<"<", "<", "=">>
    /\ toks = <<Token(BinOpEq("Shl"), Span(0, 3)), Token(Eof, Span(3, 3))>>

\* s is made of whitespace characters and whole comments only.
RECURSIVE IsTrivia(_)
IsTrivia(s) ==
    IF s = <<>> THEN TRUE
    ELSE IF is_whitespace(s[1]) THEN IsTrivia(Tail(s))
    ELSE IF Len(s) >= 2 /\ s[1] = "/" /\ s[2] = "/"
    THEN LET nl == {k \in 3..Len(s) : s[k] = "\n"}
         IN  IF nl = {} THEN TRUE
             ELSE IsTrivia(SubSeq(s, (CHOOSE k \in nl : \A j \in nl : k <= j) + 1, Len(s)))
    ELSE IF Len(s) >= 2 /\ s[1] = "/" /\ s[2] = "*"
    THEN LET cl == {k \in 3..(Len(s) - 1) : s[k] = "*" /\ s[k + 1] = "/"}
         IN  IF cl = {} THEN FALSE
             ELSE IsTrivia(SubSeq(s, (CHOOSE k \in cl : \A j \in cl : k <= j) + 2, Len(s)))
    ELSE FALSE

\* s starts with a whitespace character or with a comment opener.
StartsTrivia(s) ==
    s # <<>> /\ (is_whitespace(s[1]) \/ (Len(s) >= 2 /\ s[1] = "/" /\ s[2] \in {"/", "*"}))

\* Where the token in front of toks[i] ended (0 for the first)
PrevHi(i) == IF i = 1 THEN 0 ELSE toks[i - 1].span.hi

C6_WitnessWide ==
    /\ panic = "" /\ Len(toks) >= 2 /\ toks[Len(toks)].kind = Eof
    /\ \E i \in 1..Len(toks) : toks[i].kind.sub = "Str" /\ "U+00E9" \in Range(TokText(toks[i]))

IdentStart == Lower \cup Upper \cup {"_"}
IdentContinue == Lower \cup Upper \cup Digit \cup {"_"}

\* C7: identifier classification. A token that starts on [A-Za-z_] is the
\* maximal run of [A-Za-z0-9_] there, its Symbol is the interned text, and it
\* is Lit(Bool, sym) exactly when the text is `true` or `false` and Ident(sym)
\* for every other text, reserved words included; no other token is an Ident
\* or a Bool literal.
C7_IdentClassification ==
    \A i \in 1..Len(toks) :
        LET tok == toks[i]
            text == TokText(tok)
            after == Slice(tok.span.hi, str_len(src))
            from_ident == text # <<>> /\ text[1] \in IdentStart
        IN  /\ from_ident =>
                  /\ \A k \in 1..Len(text) : text[k] \in IdentContinue
                  /\ after # <<>> => after[1] \notin IdentContinue
                  /\ tok.kind.sym # NoSym /\ get(inner, tok.kind.sym) = Cat(text)
                  /\ tok.kind = IF Cat(text) \in {"true", "false"}
                                THEN Lit("Bool", tok.kind.sym)
                                ELSE Ident(tok.kind.sym)
            /\ (tok.kind.tag = "Ident" \/ (tok.kind.tag = "Lit" /\ tok.kind.sub = "Bool"))
                  => from_ident

\* C7 witness: `true` and another reserved word have been lexed: a Bool literal
\* and an Ident carrying the reserved word's Symbol.
C7_Witness ==
    /\ \E i \in 1..Len(toks) : toks[i].kind = Lit("Bool", kw("True"))
    /\ \E i \in 1..Len(toks) :
          toks[i].kind \in {Ident(kw("Let")), Ident(kw("Fn")), Ident(kw("Super"))}

\* The kind of each of the ten single-character tokens
PunctKind(ch) ==
    CASE ch = "." -> Dot [] ch = "," -> Comma [] ch = ";" -> Semi [] ch = "#" -> Hash
      [] ch = "(" -> OpenDelim("Paren") [] ch = ")" -> CloseDelim("Paren")
      [] ch = "{" -> OpenDelim("Brace") [] ch = "}" -> CloseDelim("Brace")
      [] ch = "[" -> OpenDelim("Bracket") [] ch = "]" -> CloseDelim("Bracket")

\* C8: each of the ten characters . , ; # ( ) { } [ ] at the start of the
\* source is lexed by the first advance call, whatever follows it, as one
\* token of one character and of its own kind.
C8_SingleCharTokens ==
    (src # <<>> /\ src[1] \in PunctChars) =>
        /\ toks = <<>> => panic = ""
        /\ toks # <<>> => toks[1] = Token(PunctKind(src[1]), Span(0, 1))

(***************************************************************************)
(* The interner shared by threads                                          *)
(***************************************************************************)
\* The strings the threads intern: the last keyword of the is_keyword range, a
\* reserved word past it and two new strings.
InternArgs == {"pub", "super", "a", "b"}

\* mutant: lock() does not wait for the holder
lock_free_always(t) == TRUE

\* self.0.lock(): blocks while another thread holds the mutex
lock_free(t) == mutex = NoThread

InitIntern ==
    /\ inner = fresh
    /\ mutex = NoThread
    /\ pc = [t \in Threads |-> "idle"]
    /\ arg = [t \in Threads |-> ""]
    /\ rets = {}
    /\ getlog = {}
    /\ src = <<>>
    /\ cursor = Cursor_new(<<>>)
    /\ toks = <<>>
    /\ panic = ""
    /\ NoParser

\* a thread calls Interner::intern(s)
InternCall(t, s) ==
    /\ pc[t] = "idle"
    /\ pc' = [pc EXCEPT ![t] = "intern_lock"]
    /\ arg' = [arg EXCEPT ![t] = s]
    /\ UNCHANGED <<inner, mutex, rets, getlog, lexVars, parseVars>>

\* let mut inner = self.0.lock().unwrap()
InternLock(t) ==
    /\ pc[t] = "intern_lock"
    /\ lock_free(t)
    /\ mutex' = t
    /\ pc' = [pc EXCEPT ![t] = "intern_lookup"]
    /\ UNCHANGED <<inner, arg, rets, getlog, lexVars, parseVars>>

\* if let Some(&symbol) = inner.symbols.get(string) { return symbol; }
InternHit(t) ==
    /\ pc[t] = "intern_lookup"
    /\ arg[t] \in DOMAIN inner.symbols
    /\ rets' = rets \cup {[str |-> arg[t], sym |-> inner.symbols[arg[t]]]}
    /\ mutex' = IF mutex = t THEN NoThread ELSE mutex
    /\ pc' = [pc EXCEPT ![t] = "idle"]
    /\ UNCHANGED <<inner, arg, getlog, lexVars, parseVars>>

\* the lookup misses: symbol = Symbol(len); alloc_str; symbols.insert(string, symbol)
InternInsert(t) ==
    /\ pc[t] = "intern_lookup"
    /\ arg[t] \notin DOMAIN inner.symbols
    /\ inner' = symbols_insert(inner, arg[t], next_symbol(inner))
    /\ pc' = [pc EXCEPT ![t] = "intern_push"]
    /\ UNCHANGED <<mutex, arg, rets, getlog, lexVars, parseVars>>

\* inner.strings.push(string); symbol (the guard is dropped on return)
InternPush(t) ==
    /\ pc[t] = "intern_push"
    /\ inner' = strings_push(inner, arg[t])
    /\ rets' = rets \cup {[str |-> arg[t], sym |-> inner.symbols[arg[t]]]}
    /\ mutex' = IF mutex = t THEN NoThread ELSE mutex
    /\ pc' = [pc EXCEPT ![t] = "idle"]
    /\ UNCHANGED <<arg, getlog, lexVars, parseVars>>

\* a thread calls Interner::get on a Symbol some intern call returned:
\* let inner = self.0.lock().unwrap()
GetLock(t, r) ==
    /\ pc[t] = "idle"
    /\ r \in rets
    /\ lock_free(t)
    /\ mutex' = t
    /\ pc' = [pc EXCEPT ![t] = "get_read"]
    /\ arg' = [arg EXCEPT ![t] = r.str]
    /\ UNCHANGED <<inner, rets, getlog, lexVars, parseVars>>

\* inner.strings[symbol.as_usize()]
GetRead(t) ==
    /\ pc[t] = "get_read"
    /\ \E r \in rets :
          /\ r.str = arg[t]
          /\ getlog' = getlog \cup {[str |-> r.str, sym |-> r.sym, out |-> get(inner, r.sym)]}
    /\ mutex' = IF mutex = t THEN NoThread ELSE mutex
    /\ pc' = [pc EXCEPT ![t] = "idle"]
    /\ UNCHANGED <<inner, arg, rets, lexVars, parseVars>>

NextIntern ==
    \E t \in Threads :
        \/ \E s \in InternArgs : InternCall(t, s)
        \/ InternLock(t)
        \/ InternHit(t)
        \/ InternInsert(t)
        \/ InternPush(t)
        \/ \E r \in rets : GetLock(t, r)
        \/ GetRead(t)

SpecIntern == InitIntern /\ [][NextIntern]_vars

(***************************************************************************)
(* Interner laws                                                           *)
(***************************************************************************)
\* The reserved strings in the documented order, "" = 0 ... super = 25.
DocumentedReserved ==
    <<"", "_", "let", "const", "if", "else", "while", "for", "in", "loop", "break",
      "continue", "return", "mod", "use", "fn", "struct", "enum", "pub", "true",
      "false", "as", "crate", "self", "Self", "super">>

\* K, the number of pre-registered strings
DocumentedK == 26

\* The reserved words: the documented list without "" and "_".
ReservedWords == {DocumentedReserved[i] : i \in 3..Len(DocumentedReserved)}

\* C1: interner round trip. Every finished get call on the Symbol that intern
\* returned for a string s returned exactly s, and whenever the mutex is free
\* (the only states a get call can read) get(sym) is s for every Symbol sym
\* that intern has returned for s, pre-registered or newly inserted.
C1_RoundTrip ==
    /\ \A g \in getlog : g.out = g.str
    /\ mutex = NoThread => \A r \in rets : get(inner, r.sym) = r.str

\* C1 witness: get has been called on a pre-registered and on a new Symbol.
C1_Witness ==
    /\ \E g \in getlog : g.sym < DocumentedK /\ g.out = g.str
    /\ \E g \in getlog : g.sym >= DocumentedK /\ g.out = g.str

\* C2: under every interleaving, two finished intern calls returned the same
\* Symbol if and only if their strings are equal.
C2_SameSymbolIffEqual ==
    \A r1 \in rets : \A r2 \in rets : (r1.sym = r2.sym) <=> (r1.str = r2.str)

\* C2 witness: a thread has inserted a new string and is still inside intern,
\* holding the mutex, while another thread's intern call for the same string
\* waits for the lock, and a third string has already got its Symbol.
C2_Witness ==
    \E t1 \in Threads : \E t2 \in Threads \ {t1} :
        /\ pc[t1] = "intern_push" /\ mutex = t1
        /\ pc[t2] = "intern_lock" /\ arg[t2] = arg[t1]
        /\ \E r \in rets : r.sym >= DocumentedK

\* C3: Symbol numbering. The vector starts with the reserved strings in the
\* documented order, the kw constants are the documented indices, a string
\* that is not pre-registered gets a Symbol >= K, and Symbols are handed out
\* sequentially: the string at position i of the vector (the (i-K)-th new one
\* for i > K) has the Symbol i-1, every returned Symbol is the position of its
\* string, and no string is stored twice.
C3_SymbolNumbering ==
    /\ Len(inner.strings) >= DocumentedK
    /\ \A i \in 1..DocumentedK :
          /\ inner.strings[i] = DocumentedReserved[i]
          /\ inner.symbols[DocumentedReserved[i]] = i - 1
          /\ kw(SymbolsDecl[i][1]) = i - 1
          /\ SymbolsDecl[i][2] = DocumentedReserved[i]
    /\ kw("Let") = 2 /\ kw("Const") = 3 /\ kw("Pub") = 18 /\ kw("True") = 19
    /\ kw("False") = 20 /\ kw("As") = 21 /\ kw("Crate") = 22 /\ kw("SelfLower") = 23
    /\ kw("SelfUpper") = 24 /\ kw("Super") = 25
    /\ \A i \in 1..Len(inner.strings) :
          /\ inner.strings[i] \in DOMAIN inner.symbols
          /\ inner.symbols[inner.strings[i]] = i - 1
          /\ \A j \in 1..Len(inner.strings) : inner.strings[j] = inner.strings[i] => j = i
    /\ \A r \in rets :
          /\ r.str \notin Range(DocumentedReserved) => r.sym >= DocumentedK
          /\ r.sym + 1 \in 1..Len(inner.strings)
          /\ inner.strings[r.sym + 1] = r.str

\* C3 witness: two new strings have been inserted, the first got K, the second K+1.
C3_Witness ==
    /\ Len(inner.strings) = DocumentedK + 2
    /\ \E r1 \in rets : \E r2 \in rets :
          /\ r1.sym = DocumentedK /\ r2.sym = DocumentedK + 1
          /\ r1.str \notin Range(DocumentedReserved)
          /\ r2.str \notin Range(DocumentedReserved)

\* C4: keyword range test. is_keyword(intern(k)) is true for every reserved
\* word k, and false for "", "_" and every identifier that is not reserved:
\* of every finished intern call, the Symbol passes is_keyword exactly when
\* the string is a reserved word.
C4_KeywordRangeTest ==
    \A r \in rets : is_keyword(r.sym) <=> r.str \in ReservedWords

(***************************************************************************)
(* Parser laws                                                             *)
(***************************************************************************)
\* The tokens of a text before Eof: Lexer::advance until Eof (or a panic)
RECURSIVE lex_all(_, _)
lex_all(c, in) ==
    Bind([r \in {advance(c, in)} |->
    IF r.panic # "" \/ r.tok.kind = Eof THEN <<>>
    ELSE <<r.tok>> \o lex_all(r.cur, r.inner)])

\* Span a lies within span b
within(a, b) == b.lo <= a.lo /\ a.hi <= b.hi

\* C9: parse_crate parses items until EOF. Whenever parse_crate has returned
\* a Crate, the parser stands at Eof and every token of the source before Eof
\* lies within the span of one of the returned items: no token of the source,
\* the last one included, is left unparsed.
C9_ParsesUntilEof ==
    result.tag = "Ok" =>
        /\ token.kind = Eof
        /\ \A t \in Range(lex_all(Cursor_new(src), fresh)) :
              \E i \in 1..Len(result.crate.items) : within(t.span, result.crate.items[i].span)

\* C10: item dispatch. For a crate source that is one well-formed item, after
\* an optional `pub`, parse_crate ends with exactly one Item of the kind the
\* identifier fn, struct, enum, mod or use selects, with that visibility; for
\* `fn main() {}` the Item is a Fn with ident main, no params, no return type
\* and an empty block.
C10_ItemDispatch ==
    \A w \in WellFormedItems : \A vis \in {"Inherited", "Public"} :
        (/\ ppc \in {"done", "halted"}
         /\ src = (IF vis = "Public" THEN PubPrefix ELSE <<>>) \o w.text) =>
            /\ result.tag = "Ok"
            /\ Len(result.crate.items) = 1
            /\ result.crate.items[1].vis = vis
            /\ result.crate.items[1].kind.tag = w.kind
            /\ w.kind = "Fn" =>
                  /\ get(inner, result.crate.items[1].ident.name) = "main"
                  /\ result.crate.items[1].kind.v.sig.params = <<>>
                  /\ result.crate.items[1].kind.v.sig.ret_ty = None
                  /\ result.crate.items[1].kind.v.body.stmts = <<>>

(***************************************************************************)
(* Expression laws                                                         *)
(***************************************************************************)
\* The operators of the expression sources, each with the BinOpKind of its
\* node and its level in the table Assign < Or < And < BitOr < BitXor <
\* BitAnd < Compare < Shift < Arithmetic < Term
OperatorTable ==
    { [text |-> <<"-">>, kind |-> "Sub", level |-> "Arithmetic"],
      [text |-> <<"+">>, kind |-> "Add", level |-> "Arithmetic"],
      [text |-> <<"*">>, kind |-> "Mul", level |-> "Term"],
      [text |-> <<"=">>, kind |-> "Assign", level |-> "Assign"],
      [text |-> <<"+", "=">>, kind |-> "Add", level |-> "Assign"],
      [text |-> <<"=", "=">>, kind |-> "Eq", level |-> "Compare"],
      [text |-> <<"&", "&">>, kind |-> "And", level |-> "And"] }

OperatorOf(text) == CHOOSE d \in OperatorTable : d.text = text

Level(text) == Precedence(OperatorOf(text).level)

\* The method f has been called on the source text (behind any leading blanks)
Called(f, text) == ret.of = f /\ \E n \in 0..MaxLeading : src = Blanks(n) \o text

\* Expression e is the path that is the i-th operand of an expression source
IsOperand(e, i) ==
    /\ e.kind.tag = "Path"
    /\ Len(e.kind.v.segments) = 1
    /\ get(inner, e.kind.v.segments[1].ident.name) = OperandTexts[i]

\* Expression e is the node of the operator: Assign, AssignOp or Binary
IsApplication(e, text) ==
    CASE text = <<"=">> -> e.kind.tag = "Assign"
      [] text # <<"=">> /\ OperatorOf(text).level = "Assign" ->
           e.kind.tag = "AssignOp" /\ e.kind.v.op.kind = OperatorOf(text).kind
      [] OTHER -> e.kind.tag = "Binary" /\ e.kind.v.op.kind = OperatorOf(text).kind

\* e is (a o1 b) o2 c
LeftNested(e, o1, o2) ==
    /\ IsApplication(e, o2)
    /\ IsApplication(e.kind.v.lhs, o1)
    /\ IsOperand(e.kind.v.lhs.kind.v.lhs, 1)
    /\ IsOperand(e.kind.v.lhs.kind.v.rhs, 2)
    /\ IsOperand(e.kind.v.rhs, 3)

\* e is a o1 (b o2 c)
RightNested(e, o1, o2) ==
    /\ IsApplication(e, o1)
    /\ IsOperand(e.kind.v.lhs, 1)
    /\ IsApplication(e.kind.v.rhs, o2)
    /\ IsOperand(e.kind.v.rhs.kind.v.lhs, 2)
    /\ IsOperand(e.kind.v.rhs.kind.v.rhs, 3)

\* C11: left-associativity of binary operators. parse_expr on `a o1 b o2 c`,
\* o1 and o2 of the same level other than Assign (as in `a - b - c`), returns
\* the node of o2 over the node of o1: Binary(o2, Binary(o1, a, b), c).
C11_LeftAssociative ==
    \A o1 \in OperatorTexts : \A o2 \in OperatorTexts :
        (/\ Level(o1) = Level(o2)
         /\ Level(o1) # Precedence("Assign")
         /\ Called("parse_expr", ExprSrc(<<o1, o2>>))) =>
            ret.ok /\ LeftNested(ret.v, o1, o2)

\* C12: right-associativity of assignment. parse_expr on `a o1 b o2 c`, o1
\* and o2 both of the Assign level (as in `a = b = c`), returns the
\* assignment o1 whose right-hand side is the assignment o2:
\* Assign(a, Assign(b, c)).
C12_AssignRightAssociative ==
    \A o1 \in OperatorTexts : \A o2 \in OperatorTexts :
        (/\ Level(o1) = Precedence("Assign")
         /\ Level(o2) = Precedence("Assign")
         /\ Called("parse_expr", ExprSrc(<<o1, o2>>))) =>
            ret.ok /\ RightNested(ret.v, o1, o2)

\* C13: precedence. parse_expr on `a o1 b o2 c` nests the operator of the
\* higher level deeper: a o1 (b o2 c) when o2 is of the higher level (as in
\* `a + b * c`), (a o1 b) o2 c when o1 is; and `a == b && c == d` is
\* Binary(And, Binary(Eq, a, b), Binary(Eq, c, d)).
C13_Precedence ==
    /\ \A o1 \in OperatorTexts : \A o2 \in OperatorTexts :
          (Level(o1) # Level(o2) /\ Called("parse_expr", ExprSrc(<<o1, o2>>))) =>
              /\ ret.ok
              /\ Level(o1) < Level(o2) => RightNested(ret.v, o1, o2)
              /\ Level(o1) > Level(o2) => LeftNested(ret.v, o1, o2)
    /\ Called("parse_expr", ExprSrc(<< <<"=", "=">>, <<"&", "&">>, <<"=", "=">> >>)) =>
          /\ ret.ok
          /\ IsApplication(ret.v, <<"&", "&">>)
          /\ IsApplication(ret.v.kind.v.lhs, <<"=", "=">>)
          /\ IsOperand(ret.v.kind.v.lhs.kind.v.lhs, 1)
          /\ IsOperand(ret.v.kind.v.lhs.kind.v.rhs, 2)
          /\ IsApplication(ret.v.kind.v.rhs, <<"=", "=">>)
          /\ IsOperand(ret.v.kind.v.rhs.kind.v.lhs, 3)
          /\ IsOperand(ret.v.kind.v.rhs.kind.v.rhs, 4)

\* C14: else-if chains. parse_expr on `if a { } else if b { } else { }`
\* succeeds with an If whose else_branch is itself an If expression, whose
\* else_branch in turn is a Block: right-nested Ifs, not a block holding an If.
C14_ElseIfChain ==
    Called("parse_expr", IfChainSrc) =>
        /\ ret.ok
        /\ ret.v.kind.tag = "If"
        /\ ret.v.kind.v.else_branch # None
        /\ ret.v.kind.v.else_branch[1].kind.tag = "If"
        /\ ret.v.kind.v.else_branch[1].kind.v.else_branch # None
        /\ ret.v.kind.v.else_branch[1].kind.v.else_branch[1].kind.tag = "Block"

(***************************************************************************)
(* Item laws                                                               *)
(***************************************************************************)
\* The names of the segments of a path
PathNames(path) ==
    [i \in 1..Len(path.segments) |-> get(inner, path.segments[i].ident.name)]

\* C15: module items. parse_mod_item on `mod m { }` and `mod m { mod n; }`
\* returns ModKind::Loaded with the nested items, inline, and has consumed the
\* opening and the closing brace (the parser stands at Eof); on `mod m;` it
\* returns ModKind::Unloaded.
C15_ModItems ==
    /\ Called("parse_mod_item", ModBraceSrc) =>
          /\ ret.ok
          /\ ret.v.kind.tag = "Mod"
          /\ ret.v.kind.v.tag = "Loaded"
          /\ ret.v.kind.v.v[1] = <<>>
          /\ ret.v.kind.v.v[2] = "Yes"
          /\ token.kind = Eof
    /\ Called("parse_mod_item", ModNestedSrc) =>
          /\ ret.ok
          /\ ret.v.kind.tag = "Mod"
          /\ ret.v.kind.v.tag = "Loaded"
          /\ Len(ret.v.kind.v.v[1]) = 1
          /\ ret.v.kind.v.v[1][1].kind.tag = "Mod"
          /\ ret.v.kind.v.v[2] = "Yes"
          /\ token.kind = Eof
    /\ Called("parse_mod_item", ModSemiSrc) =>
          /\ ret.ok
          /\ ret.v.kind.tag = "Mod"
          /\ ret.v.kind.v.tag = "Unloaded"

\* The use tree t has base path a::b and the Nested children Single(None) for
\* c and Single(Some(e)) for d
IsNestedTree(t) ==
    /\ PathNames(t.base) = <<"a", "b">>
    /\ t.kind.tag = "Nested"
    /\ Len(t.kind.v) = 2
    /\ PathNames(t.kind.v[1].base) = <<"c">>
    /\ t.kind.v[1].kind = Variant("Single", None)
    /\ PathNames(t.kind.v[2].base) = <<"d">>
    /\ t.kind.v[2].kind.tag = "Single"
    /\ t.kind.v[2].kind.v # None
    /\ get(inner, t.kind.v[2].kind.v[1].name) = "e"

\* The use tree t has base path a and is a Glob
IsGlobTree(t) ==
    /\ PathNames(t.base) = <<"a">>
    /\ t.kind.tag = "Glob"

\* C16: use trees. parse_path in Mod style on `a::b::{c, d as e}` returns
\* a::b and on `a::*` returns a, in both cases with the `::` before `{` or `*`
\* left as the current token; parse_use_tree on `a::b::{c, d as e}` (and
\* parse_use_item on `use a::b::{c, d as e}`) returns base a::b with the
\* Nested children Single(None) for c and Single(Some(e)) for d, and on
\* `a::*` (`use a::*`) base a with Glob.
C16_UseTrees ==
    /\ (Called("parse_path", PathNestedSrc) /\ ret.args = <<"Mod">>) =>
          /\ ret.ok
          /\ PathNames(ret.v) = <<"a", "b">>
          /\ token.kind = DoubleColon
    /\ (Called("parse_path", PathGlobSrc) /\ ret.args = <<"Mod">>) =>
          /\ ret.ok
          /\ PathNames(ret.v) = <<"a">>
          /\ token.kind = DoubleColon
    /\ Called("parse_use_tree", PathNestedSrc) => ret.ok /\ IsNestedTree(ret.v)
    /\ Called("parse_use_tree", PathGlobSrc) => ret.ok /\ IsGlobTree(ret.v)
    /\ Called("parse_use_item", UseNestedSrc) =>
          ret.ok /\ ret.v.kind.tag = "Use" /\ IsNestedTree(ret.v.kind.v)
    /\ Called("parse_use_item", UseGlobSrc) =>
          ret.ok /\ ret.v.kind.tag = "Use" /\ IsGlobTree(ret.v.kind.v)

(***************************************************************************)
(* Span laws                                                               *)
(***************************************************************************)
\* Span s is well formed
WellFormed(s) == s.lo <= s.hi

\* The methods that return a node carrying a span (parse_mod returns the span
\* that parse_crate gives to the Crate)
SpanNodes ==
    {"parse_expr", "parse_stmt", "parse_block", "parse_ty", "parse_pat", "parse_mod",
     "parse_use_tree"}

\* C17: span well-formedness. The spans of the current and of the previous
\* token, and the span of every node a parsing method returns (Expr, Stmt,
\* Block, Ty, Pat, the module span of the Crate, UseTree, Item), satisfy
\* lo <= hi, also when the production consumed no token and when the source
\* starts with whitespace.
C17_SpanWellFormed ==
    /\ WellFormed(token.span)
    /\ WellFormed(prev_token.span)
    /\ (ret.ok /\ ret.of \in SpanNodes) => WellFormed(ret.v.span)
    /\ (ret.ok /\ ret.of = "parse_item" /\ ret.v # None) => WellFormed(ret.v[1].span)

(***************************************************************************)
(* Statement laws                                                          *)
(***************************************************************************)
\* Statements that start with a literal, `(`, `{` or `[`: `1`, `(a)`, `{ }`, `[a]`
ExprStmtSources == {<<"1">>, <<"(", "a", ")">>, <<"{", " ", "}">>, <<"[", "a", "]">>}

\* C18: statement dispatch. parse_stmt tests in order: on `let x = 1;` it
\* returns a Let statement; on `;` it consumes the `;` and returns an Empty
\* statement; on a statement that starts with a literal, `(`, `{` or `[`
\* it returns an Expr statement: none of these is a parse error; and
\* whenever it succeeds on a `let` or a `;` token the statement is Let,
\* respectively Empty.
C18_StmtDispatch ==
    /\ Called("parse_stmt", LetSrc) => ret.ok /\ ret.v.kind.tag = "Let"
    /\ Called("parse_stmt", <<";">>) =>
          ret.ok /\ ret.v.kind = Unit("Empty") /\ prev_token.kind = Semi
    /\ \A s \in ExprStmtSources :
          Called("parse_stmt", s) => ret.ok /\ ret.v.kind.tag = "Expr"
    /\ (ret.of = "parse_stmt" /\ ret.ok /\ ret.at.kind = Kind("Ident", "", kw("Let"))) =>
          ret.v.kind.tag = "Let"
    /\ (ret.of = "parse_stmt" /\ ret.ok /\ ret.at.kind = Semi) =>
          ret.v.kind = Unit("Empty")

\* Token tok is an identifier that is no keyword
IsPlainIdent(tok) == tok.kind.tag = "Ident" /\ ~ is_keyword(tok.kind.sym)

\* C19: parse_item on a leading identifier that is no keyword. With Inherited
\* visibility (the identifier is the token at entry) it returns Ok(None) and
\* leaves the current and the previous token as they were at entry; when a
\* `pub` was consumed first (the token at entry is `pub`, now the previous
\* token, and the identifier is the current token) it returns Err(ParseError).
C19_NoItem ==
    ret.of = "parse_item" =>
        /\ IsPlainIdent(ret.at) =>
              /\ ret.ok
              /\ ret.v = None
              /\ token = ret.at
              /\ prev_token = DUMMY_TOKEN
        /\ (ret.at.kind = Ident(kw("Pub")) /\ prev_token = ret.at /\ IsPlainIdent(token)) =>
              ~ ret.ok

\* parse_item has returned "no item" on a source with a leading plain identifier
C19_NoItemReturned ==
    /\ ret.of = "parse_item"
    /\ IsPlainIdent(ret.at)
    /\ ret.ok
    /\ ret.v = None
    /\ token = ret.at

\* Expression e is the path of the single identifier name
IsName(e, name) ==
    /\ e.kind.tag = "Path"
    /\ PathNames(e.kind.v) = <<name>>

\* C20: field postfix. parse_expr on `x.y` returns Field(base x, Named(y));
\* on `x.0` it returns Field(base x, Unnamed("0")), the `0` harvested by the
\* number scan without floats, and when the Field has been built the `0` is
\* no longer the current token (the parser stands at Eof).
C20_FieldPostfix ==
    /\ Called("parse_expr", FieldNameSrc) =>
          /\ ret.ok
          /\ ret.v.kind.tag = "Field"
          /\ IsName(ret.v.kind.v.base, "x")
          /\ ret.v.kind.v.kind.tag = "Named"
          /\ get(inner, ret.v.kind.v.kind.v.name) = "y"
    /\ Called("parse_expr", FieldIndexSrc) =>
          /\ ret.ok
          /\ ret.v.kind.tag = "Field"
          /\ IsName(ret.v.kind.v.base, "x")
          /\ ret.v.kind.v.kind.tag = "Unnamed"
          /\ get(inner, ret.v.kind.v.kind.v) = "0"
          /\ token.kind = Eof

\* C21: index postfix. parse_expr on `a { b }` returns Index(a, b) and has
\* consumed the closing brace; and whenever parse_expr returns an Index
\* expression the token consumed last is the closing brace `}`: no Index is
\* returned for `a { b` when the token after the index expression is not `}`.
C21_IndexClosed ==
    /\ Called("parse_expr", IndexSrc) =>
          /\ ret.ok
          /\ ret.v.kind.tag = "Index"
          /\ IsName(ret.v.kind.v.base, "a")
          /\ IsName(ret.v.kind.v.index, "b")
          /\ token.kind = Eof
    /\ (ret.of = "parse_expr" /\ ret.ok /\ ret.v.kind.tag = "Index") =>
          prev_token.kind = Kind("CloseDelim", "Brace", NoSym)

\* C22: while expressions. When the current token is the keyword `while`,
\* parse_primary_expr (also when reached through parse_expr) returns after
\* finitely many steps: the call does not stop the process; it has consumed
\* the keyword, and what it returns is a While expression or a ParseError.
C22_WhileReturns ==
    (ret.of \in {"parse_primary_expr", "parse_expr"} /\ ret.at.kind = Ident(kw("While"))) =>
        /\ ppc = "done"
        /\ panic = ""
        /\ token # ret.at
        /\ ret.ok => ret.v.kind.tag = "While"

\* The path-segment keywords as the language reference lists them
PathSegmentWords == {"self", "Self", "super", "crate"}

\* C23: path segments. Whenever parse_path has returned a Path, the token at
\* entry (the first segment) is an identifier that is no reserved word (self,
\* crate, super and the other reserved words are rejected there); the path is
\* not empty; every later segment is a path-segment keyword or an identifier
\* that is no reserved word; and the segments are, in source order, the
\* identifiers of the source that `::` separates.
C23_PathSegments ==
    (ret.of = "parse_path" /\ ret.ok) =>
        LET names == PathNames(ret.v)
            source == lex_all(Cursor_new(src), fresh)
        IN  /\ ret.at.kind.tag = "Ident"
            /\ get(inner, ret.at.kind.sym) \notin ReservedWords
            /\ Len(names) >= 1
            /\ \A i \in 2..Len(names) :
                  names[i] \in PathSegmentWords \/ names[i] \notin ReservedWords
            /\ \A i \in 1..Len(names) :
                  /\ 2 * i - 1 <= Len(source)
                  /\ source[2 * i - 1].kind.tag = "Ident"
                  /\ get(inner, source[2 * i - 1].kind.sym) = names[i]
                  /\ i > 1 => source[2 * i - 2].kind = DoubleColon

\* The lists of C24: the text, whether it has one of the three shapes, and the
\* names of its items
Lists ==
    { [text |-> <<"(", ")">>, shaped |-> TRUE, items |-> <<>>],
      [text |-> <<"(", "a", ")">>, shaped |-> TRUE, items |-> <<"a">>],
      [text |-> <<"(", "a", ",", ")">>, shaped |-> TRUE, items |-> <<"a">>],
      [text |-> <<"(", "a", ",", "b", ")">>, shaped |-> TRUE, items |-> <<"a", "b">>],
      [text |-> <<"(", "a", ",", "b", ",", ")">>, shaped |-> TRUE, items |-> <<"a", "b">>],
      [text |-> <<"(", ",", "a", ")">>, shaped |-> FALSE, items |-> <<>>],
      [text |-> <<"(", ",", ")">>, shaped |-> FALSE, items |-> <<>>],
      [text |-> <<"(", "a", ",", ",", "b", ")">>, shaped |-> FALSE, items |-> <<>>],
      [text |-> <<"(", "a", " ", "b", ")">>, shaped |-> FALSE, items |-> <<>>],
      [text |-> <<"(", "a", ",", "b">>, shaped |-> FALSE, items |-> <<>>] }

\* The tokens of the source that lie in the gap from offset lo to offset hi
TokensIn(lo, hi) ==
    SelectSeq(lex_all(Cursor_new(src), fresh), LAMBDA t : lo <= t.span.lo /\ t.span.hi <= hi)

\* C24: delimited lists. parse_parenthesized (parse_terminals with `(`, `,`
\* and `)`) returns Ok on `()`, `(a)`, `(a,)`, `(a,b)` and `(a,b,)` with the
\* items in source order, and a ParseError on a leading separator, a doubled
\* separator, a missing separator and a missing `)`. Whenever it returns Ok, on
\* any source, the token at entry was `(`, the `)` has been consumed, nothing
\* lies between `(` and the first item, exactly one `,` lies between two
\* items that follow each other, and at most one `,` lies between the last
\* item and the `)` (none in the empty list).
C24_DelimitedLists ==
    ret.of = "parse_parenthesized" =>
        /\ \A l \in Lists : src = l.text =>
              /\ ret.ok = l.shaped
              /\ ret.ok => /\ Len(ret.v.items) = Len(l.items)
                           /\ \A i \in 1..Len(ret.v.items) : IsName(ret.v.items[i], l.items[i])
        /\ ret.ok =>
              LET n == Len(ret.v.items)
                  open == ret.at.span
                  close == prev_token.span
              IN  /\ ret.at.kind = OpenDelim("Paren")
                  /\ prev_token.kind = CloseDelim("Paren")
                  /\ n = 0 => TokensIn(open.hi, close.lo) = <<>>
                  /\ n > 0 =>
                        /\ TokensIn(open.hi, ret.v.items[1].span.lo) = <<>>
                        /\ \A i \in 1..(n - 1) :
                              LET gap == TokensIn(ret.v.items[i].span.hi, ret.v.items[i + 1].span.lo)
                              IN  Len(gap) = 1 /\ gap[1].kind = Comma
                        /\ LET gap == TokensIn(ret.v.items[n].span.hi, close.lo)
                           IN  gap = <<>> \/ (Len(gap) = 1 /\ gap[1].kind = Comma)

\* A list with a trailing separator has been accepted
C24_TrailingSeparator ==
    /\ ret.of = "parse_parenthesized"
    /\ src = <<"(", "a", ",", "b", ",", ")">>
    /\ ret.ok
    /\ Len(ret.v.items) = 2

\* The longest run of digits at the head of s
RECURSIVE DigitRun(_)
DigitRun(s) ==
    IF s # <<>> /\ Head(s) \in Digit THEN <<Head(s)>> \o DigitRun(Tail(s)) ELSE <<>>

\* The number at the head of s: the longest run of digits and, with floats,
\* one dot after it and the longest run of digits after the dot
NumberRun(s, scan_float) ==
    LET whole == DigitRun(s)
        rest == SubSeq(s, Len(whole) + 1, Len(s))
    IN  IF scan_float /\ rest # <<>> /\ Head(rest) = "."
        THEN whole \o <<".">> \o DigitRun(Tail(rest))
        ELSE whole

\* Token tok is what the number scan is to yield at its start in the source
IsNumberScan(tok, in, scan_float) ==
    LET run == NumberRun(SubSeq(src, tok.span.lo + 1, Len(src)), scan_float)
    IN  /\ tok.kind.tag = "Lit"
        /\ tok.span.hi = tok.span.lo + Len(run)
        /\ get(in, tok.kind.sym) = Cat(run)
        /\ tok.kind.sub = (IF "." \in Range(run) THEN "Float" ELSE "Int")
        /\ ~ scan_float => "." \notin Range(TokText(tok))

\* C25: number scan. Every number token that Lexer::advance returned (the scan
\* with floats) and the token that scan_number(None, scan_float) returned
\* spans the maximal run of digits at its start, with at most one `.` and
\* only with floats; its symbol is the text of the run; it is a Float if and
\* only if the run holds a dot, an Int otherwise; without floats no `.` is
\* consumed; and three Lexer::advance calls on `1.2.3` return Float "1.2",
\* Dot, Int "3".
C25_NumberScan ==
    /\ \A i \in 1..Len(toks) :
          toks[i].kind.sub \in {"Int", "Float"} => IsNumberScan(toks[i], inner, TRUE)
    /\ ret.of = "scan_number" =>
          /\ IsNumberScan(ret.v, inner, ret.args[1])
          /\ ret.v.span.lo <= pos(cursor)
    /\ (src = <<"1", ".", "2", ".", "3">> /\ ret = NoRet /\ Len(toks) >= 3) =>
          /\ toks[1].kind.sub = "Float" /\ get(inner, toks[1].kind.sym) = "1.2"
          /\ toks[2].kind = Dot
          /\ toks[3].kind.sub = "Int" /\ get(inner, toks[3].kind.sym) = "3"

\* `1.2.3` has been lexed to its end
C25_ThreeTokens ==
    /\ src = <<"1", ".", "2", ".", "3">>
    /\ ret = NoRet
    /\ Len(toks) = 4
    /\ toks[1].kind.sub = "Float"
    /\ toks[4].kind = Eof

\* The scan without floats has stopped before a dot that follows digits
C25_DotLeft ==
    /\ ret.of = "scan_number"
    /\ ret.args = <<FALSE>>
    /\ ret.v.span.hi > ret.v.span.lo
    /\ ret.v.span.hi < Len(src)
    /\ src[ret.v.span.hi + 1] = "."

\* The token that follows the first token of the source (Eof when there is none)
SecondToken ==
    LET source == lex_all(Cursor_new(src), fresh)
    IN  IF Len(source) >= 2 THEN source[2] ELSE Token(Eof, Span(0, 0))

\* C26: return / break payload. When parse_primary_expr (also reached through
\* parse_expr) is entered at the keyword `return` or `break`: if the very next
\* token is `;` the call returns Ok with payload None and the `;` consumed;
\* otherwise an expression is parsed at that token and, when that succeeds, is
\* the payload Some(expr); the payload is None only in the `;` case.
C26_Payload ==
    \A word \in {"Return", "Break"} :
        (ret.of \in {"parse_primary_expr", "parse_expr"} /\ ret.at.kind = Ident(kw(word))) =>
            /\ SecondToken.kind = Semi =>
                  /\ ret.ok
                  /\ ret.v.kind = Variant(word, None)
                  /\ prev_token = SecondToken
            /\ (ret.ok /\ SecondToken.kind # Semi) =>
                  /\ ret.v.kind.tag = word
                  /\ Len(ret.v.kind.v) = 1
                  /\ ret.v.kind.v[1].span.lo = SecondToken.span.lo
            /\ (ret.ok /\ ret.v.kind.tag = word /\ ret.v.kind.v = None) =>
                  SecondToken.kind = Semi

\* `return;` has been parsed
C26_ReturnNothing ==
    /\ Called("parse_expr", ReturnSemiSrc)
    /\ ret.ok
    /\ ret.v.kind = Variant("Return", None)
    /\ prev_token.kind = Semi

\* `break x` has been parsed
C26_BreakValue ==
    /\ ret.of = "parse_primary_expr"
    /\ ret.at.kind = Ident(kw("Break"))
    /\ ret.ok
    /\ ret.v.kind.tag = "Break"
    /\ Len(ret.v.kind.v) = 1

\* Lexer::advance, called until Eof, meets no fatal error
RECURSIVE LexesWhole(_, _)
LexesWhole(c, in) ==
    \A r \in {advance(c, in)} :
        /\ r.panic = ""
        /\ r.tok.kind # Eof => LexesWhole(r.cur, r.inner)

\* The round of the item loop that is about to run consumes a token or ends
\* the loop
RoundProgresses ==
    (ppc = "mod_loop" /\ ~ is_eof(cursor)) =>
        \A r \in {parse_mod_round(ThisParser, mod_items)} :
            ~ r.ok \/ r.p.halt # "" \/ r.p.token # token

\* C27: termination of parse_crate. On every source that lexes without a
\* fatal error, parse_crate, once called, returns in the end, a Crate or a
\* ParseError, and every round of the item loop of parse_mod consumes at least
\* one token or ends the loop.
C27_ParseCrateTerminates ==
    /\ [](LexesWhole(Cursor_new(src), fresh) => RoundProgresses)
    /\ (ppc = "ready" /\ LexesWhole(Cursor_new(src), fresh)) ~> (ppc = "done")

\* C28: panic freedom of the precedence climb. No call stops in the unwrap of
\* parse_bin_rhs: when a parsing method has run, the process has not stopped
\* there, and every token of the source for which Precedence::from_token
\* returns a level (`&&`, `||`, `&&=`, `||=` included) is mapped to a BinOp by
\* parse_bin_op.
C28_UnwrapNeverFails ==
    (ppc \in {"done", "halted"} /\ ret.of # "") =>
        /\ panic # "called Option::unwrap() on a None value"
        /\ \A t \in Range(lex_all(Cursor_new(src), fresh)) :
              from_token(t) # None => parse_bin_op([ThisParser EXCEPT !.token = t]) # None

\* C29: lexer progress and Eof stability. Every Lexer::advance call that
\* returned a token other than Eof left the cursor strictly further into the
\* source than it was before the call; a call made with the cursor exhausted
\* returned Eof with the empty span (len, len), so after the first Eof every
\* later call returns that same Eof; and on a source made of whitespace and
\* terminated comments only the first call returns Eof, without a fatal error.
C29_ProgressAndEof ==
    /\ \A i \in 1..Len(toks) :
          /\ toks[i].kind # Eof => PrevHi(i) < toks[i].span.hi
          /\ PrevHi(i) = str_len(src) =>
                toks[i] = Token(Eof, Span(str_len(src), str_len(src)))
          /\ \A j \in 1..(i - 1) : toks[j].kind = Eof => toks[i] = toks[j]
    /\ (toks # <<>> /\ panic = "") => pos(cursor) = toks[Len(toks)].span.hi
    /\ IsTrivia(src) =>
          /\ panic = ""
          /\ toks # <<>> => toks[1].kind = Eof

\* Eof has been returned twice after a token
C29_EofTwice ==
    /\ Len(toks) = 3
    /\ toks[1].kind # Eof
    /\ toks[2].kind = Eof
    /\ toks[3] = toks[2]

\* The first call on a comment and whitespace has returned Eof
C29_TriviaOnly ==
    /\ src = <<"/", "/", "a", "\n">>
    /\ toks # <<>>
    /\ toks[1] = Token(Eof, Span(4, 4))

\* C30: type parsing makes progress. Every parse_ty call that returned Ok has
\* consumed at least one token: the current token lies behind the token at
\* entry. On the wildcard `_` parse_ty returns Ok(Infer) and has moved past
\* the `_`, and parse_stmt on `let x: _ = e;` returns a Let with an inferred
\* type.
C30_TyProgress ==
    /\ (ret.of = "parse_ty" /\ ret.ok) =>
          /\ ret.at.kind # Eof
          /\ token.span.lo >= ret.at.span.hi
    /\ (ret.of = "parse_ty" /\ ret.at.kind = Ident(kw("Wildcard"))) =>
          /\ ret.ok
          /\ ret.v.kind.tag \in {"Infer", "Array"}
          /\ token # ret.at
    /\ Called("parse_stmt", LetInferSrc) =>
          /\ ret.ok
          /\ ret.v.kind.tag = "Let"
          /\ Len(ret.v.kind.v.ty) = 1
          /\ ret.v.kind.v.ty[1].kind.tag = "Infer"

====
